---- MODULE Spec2Model ----
(***************************************************************************)
(* Verification model of holochain's queue-consumer pipeline               *)
(* (crates/holochain/src/core/queue_consumer.rs): the trigger channel,     *)
(* the stage loop built on next_job_or_exit, the InitialQueueTriggers      *)
(* bootstrap and the OneshotWriter commit-or-abort wrapper.                *)
(***************************************************************************)
EXTENDS Naturals, Integers, Sequences, FiniteSets, TLC

VARIABLES
    \* ---- one trigger channel exercised by free-standing callers ----
    chan,          \* [q, senders, rxAlive]: the mpsc channel behind a TriggerSender/TriggerReceiver pair
    lpc,           \* position of the consumer inside listen(): "idle" | "recv" | "drain"
    lres,          \* result of the last completed listen(): "none" | "Ok" | "Closed"
    batch,         \* trigger() calls made since the last listen() that returned Ok
    oksSinceTrig,  \* listen() calls that returned Ok since the last trigger() call
    lastBatch,     \* the value of batch when listen() last returned Ok
    \* ---- the five queue consumers spawned by spawn_queue_consumer_tasks ----
    tx,            \* stage -> [q, senders, rxAlive]: the stage's trigger channel
    stage,         \* stage -> "Idle" | "Running" | "Stopped"
    stop,          \* the shutdown broadcast as the receivers see it: "none" | "sent" | "lagged" | "closed"
    lastOutcome,   \* what the pass that finished last returned: "none" | "Complete" | "Incomplete" | "Error"
    \* ---- InitialQueueTriggers ----
    handles,       \* handle -> "Absent" | "Some" | "None": the init field of each InitialQueueTriggers value
    once,          \* the shared std::sync::Once: "New" | "Running" | "Done"
    ipc,           \* handle -> "idle" | "fanout" | "blocked": position inside initialize_workflows
    fanPos,        \* index in FanOrder of the next trigger the running closure fires
    fired,         \* stage -> trigger() calls made on it by the bootstrap closure
    fanouts,       \* times the bootstrap closure started
    calls,         \* initialize_workflows() calls started
    returned,      \* initialize_workflows() calls returned
    contended,     \* some call found the Once running and had to wait
    \* ---- scope ----
    focus,         \* "all", or the one consumer that SpecStage follows
    \* ---- spawn_queue_consumer_tasks ----
    spawnPc,       \* steps of SpawnOrder completed by spawn_queue_consumer_tasks
    slot,          \* the oneshot channel carrying tx_sys to the integrate consumer: "none" | "empty" | "sent"
    \* ---- the SysValidationWorkspace and the last dependency lookup on it ----
    elem,          \* tier -> "Absent" | "NoEntry" | "Full": what the tier's element store holds under the header hash
    meta,          \* tier -> BOOLEAN: the tier's metadata store holds the reference the lookup asks for
    hkind,         \* the type of the stored header: "Create" | "CreateLink"
    lookup,        \* the last lookup: its function, its inputs and what it returned
    \* ---- OneshotWriter::with_writer on the shared environment ----
    db,            \* key -> value: the committed store, what every reader sees
    buf,           \* key -> value: the open write transaction's view
    wlock,         \* the pass holding the environment's write lock, 0 for none
    wpc,           \* pass -> "idle" | "writing"
    snap,          \* pass -> the committed store when the pass opened its writer
    fret,          \* pass -> what the closure returned: "none" | "Ok" | "Err"
    wres,          \* pass -> what with_writer returned: "none" | "Ok" | "Err"
    \* ---- a workflow pass, its write transaction and the pass it wakes ----
    ver,           \* write transactions committed to the environment so far
    ppc,           \* the producing pass: "idle" | "writing" | "flushed"
    pfor,          \* the version that holds the writes of the producing pass
    sentFor,       \* the version the last trigger() of the producer announced
    dpc,           \* the downstream pass: "idle" | "reading"
    wokeFor,       \* the version announced by the trigger that woke the downstream pass
    readVer,       \* the version the downstream pass reads
    \* ---- ribosome::guest_callback::CallIterator ----
    it,            \* the iterator, what it was built on and what it has done so far
    \* ---- next_job_or_exit on a channel of its own ----
    job            \* the last call: what listen() and stop.recv() resolved to, and the Job returned

chanVars == <<chan, lpc, lres, batch, oksSinceTrig, lastBatch>>
pipeVars == <<tx, stage, stop, lastOutcome>>
storeVars == <<db, buf, wlock, wpc, snap, fret, wres>>
bootVars == <<handles, once, ipc, fanPos, fired, fanouts, calls, returned, contended>>
spawnVars == <<spawnPc, slot>>
depVars == <<elem, meta, hkind, lookup>>
orderVars == <<ver, ppc, pfor, sentFor, dpc, wokeFor, readVer>>
iterVars == <<it>>
jobVars == <<job>>
vars == <<chan, lpc, lres, batch, oksSinceTrig, lastBatch,
          tx, stage, stop, lastOutcome,
          handles, once, ipc, fanPos, fired, fanouts, calls, returned, contended,
          focus, spawnPc, slot, elem, meta, hkind, lookup,
          db, buf, wlock, wpc, snap, fret, wres,
          ver, ppc, pfor, sentFor, dpc, wokeFor, readVer, it, job>>

(***************************************************************************)
(* Bounds                                                                  *)
(***************************************************************************)
\* mpsc::channel(num_cpus::get()): the buffer size depends on the machine
NumCpus == 2
\* most TriggerSender clones alive at once
MaxSenders == 2
\* most trigger() calls between two successful listen() calls (> NumCpus)
MaxBatch == 3

(***************************************************************************)
(* The tokio mpsc channel as the code uses it.  The payload is (), so the  *)
(* queue is a count.                                                       *)
(***************************************************************************)
\* TriggerSender::new: an open, empty channel with one sender
NewChannel == [q |-> 0, senders |-> 1, rxAlive |-> TRUE]

\* try_send that queues the signal though the receiver is gone
try_send_to_closed(c) ==
    IF c.q >= NumCpus THEN [res |-> "Full", ch |-> c]
    ELSE [res |-> "Ok", ch |-> [c EXCEPT !.q = c.q + 1]]

\* try_send as it would be on an unbounded channel: never Full
try_send_unbounded(c) ==
    IF ~c.rxAlive THEN [res |-> "Closed", ch |-> c]
    ELSE [res |-> "Ok", ch |-> [c EXCEPT !.q = c.q + 1]]

\* self.0.try_send(()): Closed when the receiver is gone, Full at capacity
try_send(c) ==
    IF ~c.rxAlive THEN [res |-> "Closed", ch |-> c]
    ELSE IF c.q >= NumCpus THEN [res |-> "Full", ch |-> c]
    ELSE [res |-> "Ok", ch |-> [c EXCEPT !.q = c.q + 1]]

\* TriggerSender::trigger: all three outcomes of try_send are swallowed
trigger(c) == try_send(c).ch

\* recv() that is never woken by the last sender going away
recv_no_close(c) ==
    IF c.q > 0 THEN [res |-> "Some", ch |-> [c EXCEPT !.q = c.q - 1]]
    ELSE [res |-> "Pending", ch |-> c]

\* self.0.recv().await: Some(()) | None (closed and empty) | pending
recv(c) ==
    IF c.q > 0 THEN [res |-> "Some", ch |-> [c EXCEPT !.q = c.q - 1]]
    ELSE IF c.senders = 0 THEN [res |-> "None", ch |-> c]
    ELSE [res |-> "Pending", ch |-> c]

\* try_recv() that reports an empty channel as closed
try_recv_empty_is_closed(c) ==
    IF c.q > 0 THEN [res |-> "Ok", ch |-> [c EXCEPT !.q = c.q - 1]]
    ELSE [res |-> "Closed", ch |-> c]

\* self.0.try_recv(): Ok(()) | Err(Empty) | Err(Closed)
try_recv(c) ==
    IF c.q > 0 THEN [res |-> "Ok", ch |-> [c EXCEPT !.q = c.q - 1]]
    ELSE IF c.senders = 0 THEN [res |-> "Closed", ch |-> c]
    ELSE [res |-> "Empty", ch |-> c]

\* listen() without its drain loop: Ok straight after recv()
drain_step_no_drain(c) == [ret |-> "Ok", ch |-> c]

\* one turn of the drain loop of listen(): "more" keeps looping
drain_step(c) ==
    LET r == try_recv(c) IN
    CASE r.res = "Closed" -> [ret |-> "Closed", ch |-> r.ch]
      [] r.res = "Empty"  -> [ret |-> "Ok", ch |-> r.ch]
      [] OTHER            -> [ret |-> "more", ch |-> r.ch]

(***************************************************************************)
(* Channel-level actions: any number of senders trigger, clone and drop    *)
(* while one consumer calls listen() again and again.                      *)
(***************************************************************************)
ChanInit ==
    /\ chan = NewChannel
    /\ lpc = "idle"
    /\ lres = "none"
    /\ batch = 0
    /\ oksSinceTrig = 0
    /\ lastBatch = 0

\* some live TriggerSender calls trigger()
Trigger ==
    /\ chan.senders > 0
    /\ batch < MaxBatch
    /\ chan' = trigger(chan)
    /\ batch' = batch + 1
    /\ oksSinceTrig' = 0
    /\ UNCHANGED <<lpc, lres, lastBatch>>
    /\ UNCHANGED <<pipeVars, bootVars, focus, spawnVars, depVars, orderVars, iterVars, jobVars, storeVars>>

\* #[derive(Clone)] on TriggerSender
CloneSender ==
    /\ chan.senders > 0
    /\ chan.senders < MaxSenders
    /\ chan' = [chan EXCEPT !.senders = chan.senders + 1]
    /\ UNCHANGED <<lpc, lres, batch, oksSinceTrig, lastBatch>>
    /\ UNCHANGED <<pipeVars, bootVars, focus, spawnVars, depVars, orderVars, iterVars, jobVars, storeVars>>

\* a TriggerSender goes out of scope
DropSender ==
    /\ chan.senders > 0
    /\ chan' = [chan EXCEPT !.senders = chan.senders - 1]
    /\ UNCHANGED <<lpc, lres, batch, oksSinceTrig, lastBatch>>
    /\ UNCHANGED <<pipeVars, bootVars, focus, spawnVars, depVars, orderVars, iterVars, jobVars, storeVars>>

\* the TriggerReceiver goes out of scope (not while listen() borrows it)
DropReceiver ==
    /\ chan.rxAlive
    /\ lpc = "idle"
    /\ chan' = [chan EXCEPT !.rxAlive = FALSE, !.q = 0]
    /\ UNCHANGED <<lpc, lres, batch, oksSinceTrig, lastBatch>>
    /\ UNCHANGED <<pipeVars, bootVars, focus, spawnVars, depVars, orderVars, iterVars, jobVars, storeVars>>

\* the consumer calls listen()
ListenStart ==
    /\ chan.rxAlive
    /\ lpc = "idle"
    /\ lpc' = "recv"
    /\ UNCHANGED <<chan, lres, batch, oksSinceTrig, lastBatch>>
    /\ UNCHANGED <<pipeVars, bootVars, focus, spawnVars, depVars, orderVars, iterVars, jobVars, storeVars>>

\* listen(): `if self.0.recv().await.is_some()`
ListenRecv ==
    /\ lpc = "recv"
    /\ LET r == recv(chan) IN
         /\ r.res # "Pending"
         /\ chan' = r.ch
         /\ IF r.res = "Some"
              THEN lpc' = "drain" /\ lres' = lres
              ELSE lpc' = "idle" /\ lres' = "Closed"
    /\ UNCHANGED <<batch, oksSinceTrig, lastBatch>>
    /\ UNCHANGED <<pipeVars, bootVars, focus, spawnVars, depVars, orderVars, iterVars, jobVars, storeVars>>

\* listen(): one turn of `loop { match self.0.try_recv() ... }`
ListenDrain ==
    /\ lpc = "drain"
    /\ LET d == drain_step(chan) IN
         /\ chan' = d.ch
         /\ CASE d.ret = "more" ->
                   UNCHANGED <<lpc, lres, batch, oksSinceTrig, lastBatch>>
              [] d.ret = "Ok" ->
                   /\ lpc' = "idle"
                   /\ lres' = "Ok"
                   /\ batch' = 0
                   /\ lastBatch' = batch
                   /\ oksSinceTrig' = oksSinceTrig + 1
              [] OTHER ->
                   /\ lpc' = "idle"
                   /\ lres' = "Closed"
                   /\ UNCHANGED <<batch, oksSinceTrig, lastBatch>>
    /\ UNCHANGED <<pipeVars, bootVars, focus, spawnVars, depVars, orderVars, iterVars, jobVars, storeVars>>

NextChan ==
    \/ Trigger
    \/ CloneSender
    \/ DropSender
    \/ DropReceiver
    \/ ListenStart
    \/ ListenRecv
    \/ ListenDrain

(***************************************************************************)
(* listen() and next_job_or_exit as one poll of the stage task             *)
(***************************************************************************)
\* the drain loop of listen() run to its return
RECURSIVE drain(_)
drain(c) ==
    LET d == drain_step(c) IN
    IF d.ret = "more" THEN drain(d.ch) ELSE d

\* TriggerReceiver::listen: "Ok" | "Closed" | "Pending" (suspended in recv)
listen(c) ==
    LET r == recv(c) IN
    CASE r.res = "Some" -> drain(r.ch)
      [] r.res = "None" -> [ret |-> "Closed", ch |-> r.ch]
      [] OTHER          -> [ret |-> "Pending", ch |-> c]

\* what a broadcast receiver can see: nothing yet, a value sent, values
\* sent beyond the capacity and lost, or the sender dropped
StopStates == {"none", "sent", "lagged", "closed"}

\* stop.recv() on a stage's broadcast receiver: Ok(()), Err(Lagged),
\* Err(Closed), or pending
stop_recv(st) ==
    CASE st = "sent"   -> "Ok"
      [] st = "lagged" -> "Lagged"
      [] st = "closed" -> "Closed"
      [] OTHER         -> "Pending"

\* next_job_or_exit that takes only a received value for a shutdown
next_job_or_exit_on_value_only(c, st) ==
    LET l == listen(c) IN
    IF l.ret # "Pending"
      THEN [job |-> IF l.ret = "Ok" THEN "Run" ELSE "Shutdown", ch |-> l.ch]
      ELSE CASE stop_recv(st) = "Ok"      -> [job |-> "Shutdown", ch |-> c]
             [] stop_recv(st) = "Pending" -> [job |-> "Pending", ch |-> c]
             [] OTHER                     -> [job |-> "Run", ch |-> c]

\* next_job_or_exit: futures::future::select(next_job, kill) polls next_job
\* first and returns Either::Left as soon as it is ready; kill is polled
\* only when listen() is pending
next_job_or_exit(c, st) ==
    LET l == listen(c) IN
    IF l.ret # "Pending"
      THEN [job |-> IF l.ret = "Ok" THEN "Run" ELSE "Shutdown", ch |-> l.ch]
      ELSE IF stop_recv(st) # "Pending"
             THEN [job |-> "Shutdown", ch |-> c]
             ELSE [job |-> "Pending", ch |-> c]

\* no call made yet
NoJob == [listen |-> "none", kill |-> "none", ret |-> "none"]

JobInit == job = NoJob

\* a task calls next_job_or_exit on the channel and the broadcast receiver
\* and the call returns; kill is polled only when listen() is pending
JobStep ==
    /\ chan.rxAlive
    /\ lpc = "idle"
    /\ LET l == listen(chan)
           r == next_job_or_exit(chan, stop)
       IN /\ r.job # "Pending"
          /\ chan' = r.ch
          /\ job' = [listen |-> l.ret,
                     kill |-> IF l.ret = "Pending" THEN stop_recv(stop) ELSE "unpolled",
                     ret |-> r.job]
          /\ batch' = IF r.job = "Run" THEN 0 ELSE batch
    /\ UNCHANGED <<lpc, lres, oksSinceTrig, lastBatch>>
    /\ UNCHANGED <<pipeVars, bootVars, focus, spawnVars, depVars, orderVars, iterVars, storeVars>>

\* senders trigger, clone and drop while a task calls next_job_or_exit
NextJobOrExit ==
    \/ Trigger
    \/ CloneSender
    \/ DropSender
    \/ JobStep

(***************************************************************************)
(* The pipeline graph built by spawn_queue_consumer_tasks                  *)
(***************************************************************************)
Stages == {"sys_validation", "app_validation", "integrate_dht_ops",
           "produce_dht_ops", "publish_dht_ops"}

\* a wiring in which sys validation is given the integrate sender and app
\* validation the publish sender
Downstream_shifted(s) ==
    CASE s = "sys_validation"    -> {"integrate_dht_ops"}
      [] s = "app_validation"    -> {"publish_dht_ops"}
      [] s = "integrate_dht_ops" -> {"sys_validation"}
      [] s = "produce_dht_ops"   -> {"publish_dht_ops"}
      [] OTHER                   -> {}

\* the trigger senders each consumer is spawned with
Downstream(s) ==
    CASE s = "sys_validation"    -> {"app_validation"}
      [] s = "app_validation"    -> {"integrate_dht_ops"}
      [] s = "integrate_dht_ops" -> {"sys_validation"}
      [] s = "produce_dht_ops"   -> {"publish_dht_ops"}
      [] OTHER                   -> {}

Upstream(s) == {u \in Stages : s \in Downstream(u)}

\* the stages an outside caller can trigger: the pub fields of InitialQueueTriggers
PublicTriggers == {"sys_validation", "produce_dht_ops"}

\* senders of a stage's channel when spawn_queue_consumer_tasks returns: the
\* one moved into InitialQueueTriggers, the consumer's own, one per upstream
SendersAtSpawn(s) == 2 + Cardinality(Upstream(s))

PipeInit ==
    /\ tx = [s \in Stages |-> [NewChannel EXCEPT !.senders = SendersAtSpawn(s)]]
    /\ stage = [s \in Stages |-> "Idle"]
    /\ stop = "none"
    /\ lastOutcome = "none"

\* the downstream senders the task of s holds: the ones it was spawned with
\* (integrate: the one sent through the oneshot channel), until it ends
held(s) ==
    IF stage[s] \notin {"Idle", "Running"} THEN {}
    ELSE IF s = "integrate_dht_ops" /\ slot # "sent" THEN {}
    ELSE Downstream(s)

\* trigger() on every channel in the set S
trigger_all(t, S) == [s \in Stages |-> IF s \in S THEN trigger(t[s]) ELSE t[s]]

\* the consumer task of s ends: its receiver, its own sender and the
\* downstream senders it holds are dropped
task_ends(t, s) ==
    [x \in Stages |->
        IF x = s THEN [t[x] EXCEPT !.rxAlive = FALSE, !.q = 0, !.senders = @ - 1]
        ELSE IF x \in Downstream(s) THEN [t[x] EXCEPT !.senders = @ - 1]
        ELSE t[x]]

\* the loop head of a consumer: `if let Job::Shutdown = next_job_or_exit(..) { break }`
NextJob(s) ==
    /\ stage[s] = "Idle"
    /\ LET r == next_job_or_exit(tx[s], stop) IN
         /\ r.job # "Pending"
         /\ IF r.job = "Run"
              THEN /\ stage' = [stage EXCEPT ![s] = "Running"]
                   /\ tx' = [tx EXCEPT ![s] = r.ch]
              ELSE /\ stage' = [stage EXCEPT ![s] = "Stopped"]
                   /\ tx' = task_ends([tx EXCEPT ![s] = r.ch], s)
    /\ UNCHANGED <<stop, lastOutcome, chanVars, bootVars, focus, spawnVars, depVars, orderVars, iterVars, jobVars, storeVars>>

\* the self-trigger of a consumer after its workflow returned `outcome`
self_trigger(c, outcome) == IF outcome = "Incomplete" THEN trigger(c) ELSE c

\* a pass cut short by the shutdown broadcast: the consumer stops mid-pass
FinishPass_preempted(s, outcome, fires) ==
    /\ stage[s] = "Running"
    /\ outcome = "Error" => fires = {}
    /\ IF stop = "sent"
         THEN /\ stage' = [stage EXCEPT ![s] = "Stopped"]
              /\ tx' = task_ends(tx, s)
         ELSE /\ stage' = [stage EXCEPT ![s] = "Idle"]
              /\ LET t1 == trigger_all(tx, fires) IN
                   tx' = [t1 EXCEPT ![s] = self_trigger(t1[s], outcome)]
    /\ lastOutcome' = outcome
    /\ UNCHANGED <<stop, chanVars, bootVars, focus, spawnVars, depVars, orderVars, iterVars, jobVars, storeVars>>

\* a consumer whose task ends when its workflow returns an error
FinishPass_error_stops(s, outcome, fires) ==
    /\ stage[s] = "Running"
    /\ outcome = "Error" => fires = {}
    /\ IF outcome = "Error"
         THEN /\ stage' = [stage EXCEPT ![s] = "Stopped"]
              /\ tx' = task_ends(tx, s)
         ELSE /\ stage' = [stage EXCEPT ![s] = "Idle"]
              /\ LET t1 == trigger_all(tx, fires) IN
                   tx' = [t1 EXCEPT ![s] = self_trigger(t1[s], outcome)]
    /\ lastOutcome' = outcome
    /\ UNCHANGED <<stop, chanVars, bootVars, focus, spawnVars, depVars, orderVars, iterVars, jobVars, storeVars>>

\* one pass of the workflow ends: it fired the triggers in `fires` when it
\* produced data, and the consumer re-triggers itself on Incomplete
FinishPass(s, outcome, fires) ==
    /\ stage[s] = "Running"
    /\ outcome = "Error" => fires = {}
    /\ LET t1 == trigger_all(tx, fires) IN
         tx' = [t1 EXCEPT ![s] = self_trigger(t1[s], outcome)]
    /\ stage' = [stage EXCEPT ![s] = "Idle"]
    /\ lastOutcome' = outcome
    /\ UNCHANGED <<stop, chanVars, bootVars, focus, spawnVars, depVars, orderVars, iterVars, jobVars, storeVars>>

\* a holder of a sender of s's channel calls trigger(): an outside caller
\* through the pub fields of InitialQueueTriggers (gossip handling, a zome
\* call), or whoever else holds a clone
ExternalTrigger(s) ==
    /\ tx' = trigger_all(tx, {s})
    /\ UNCHANGED <<stage, stop, lastOutcome, chanVars, bootVars, focus, spawnVars, depVars, orderVars, iterVars, jobVars, storeVars>>

\* the lifecycle controller broadcasts on `stop`
Shutdown ==
    /\ stop = "none"
    /\ stop' = "sent"
    /\ UNCHANGED <<tx, stage, lastOutcome, chanVars, bootVars, focus, spawnVars, depVars, orderVars, iterVars, jobVars, storeVars>>

(***************************************************************************)
(* InitialQueueTriggers                                                    *)
(***************************************************************************)
\* InitialQueueTriggers values (the one returned by spawn and its clones)
MaxHandles == 3
\* initialize_workflows() calls made in all
MaxCalls == 4

Handles == 1..MaxHandles

\* a closure that leaves the publish trigger out
FanOrder_without_publish == <<"sys_validation", "app_validation",
                              "integrate_dht_ops", "produce_dht_ops">>

\* the order of the trigger() calls in the closure of initialize_workflows
FanOrder == <<"sys_validation", "app_validation", "publish_dht_ops",
              "integrate_dht_ops", "produce_dht_ops">>

BootInit ==
    /\ handles = [h \in Handles |-> IF h = 1 THEN "Some" ELSE "Absent"]
    /\ once = "New"
    /\ ipc = [h \in Handles |-> "idle"]
    /\ fanPos = 0
    /\ fired = [s \in Stages |-> 0]
    /\ fanouts = 0
    /\ calls = 0
    /\ returned = 0
    /\ contended = FALSE

\* a closure call with no Once around it
call_once_unguarded(o) == "run"

\* Once::call_once: run the closure, wait for another caller's run, or skip
call_once(o) ==
    CASE o = "New"     -> "run"
      [] o = "Running" -> "wait"
      [] OTHER         -> "skip"

\* #[derive(Clone)] on InitialQueueTriggers: the Option<Arc<Once>> is cloned,
\* so a Some shares the Once and a None stays None; every sender is cloned
CloneHandle(h, h2) ==
    /\ handles[h] # "Absent"
    /\ ipc[h] = "idle"
    /\ handles[h2] = "Absent"
    /\ handles' = [handles EXCEPT ![h2] = handles[h]]
    /\ tx' = [s \in Stages |-> [tx[s] EXCEPT !.senders = @ + 1]]
    /\ UNCHANGED <<once, ipc, fanPos, fired, fanouts, calls, returned, contended>>
    /\ UNCHANGED <<stage, stop, lastOutcome, chanVars, focus, spawnVars, depVars, orderVars, iterVars, jobVars, storeVars>>

\* initialize_workflows(&mut self) up to the closure: self.init.take(), then
\* init.call_once(..)
InitCall(h) ==
    /\ handles[h] # "Absent"
    /\ ipc[h] = "idle"
    /\ calls < MaxCalls
    /\ calls' = calls + 1
    /\ handles' = [handles EXCEPT ![h] = "None"]
    /\ LET how == IF handles[h] = "Some" THEN call_once(once) ELSE "skip" IN
         CASE how = "run" ->
                /\ once' = "Running"
                /\ ipc' = [ipc EXCEPT ![h] = "fanout"]
                /\ fanPos' = 1
                /\ fanouts' = fanouts + 1
                /\ UNCHANGED <<returned, contended>>
           [] how = "wait" ->
                /\ ipc' = [ipc EXCEPT ![h] = "blocked"]
                /\ contended' = TRUE
                /\ UNCHANGED <<once, fanPos, fanouts, returned>>
           [] OTHER ->
                /\ returned' = returned + 1
                /\ UNCHANGED <<once, ipc, fanPos, fanouts, contended>>
    /\ UNCHANGED <<fired, pipeVars, chanVars, focus, spawnVars, depVars, orderVars, iterVars, jobVars, storeVars>>

\* the closure: the next of its five trigger() calls; after the last one the
\* Once is done and the call returns
FanoutStep(h) ==
    /\ ipc[h] = "fanout"
    /\ LET s == FanOrder[fanPos] IN
         /\ tx' = trigger_all(tx, {s})
         /\ fired' = [fired EXCEPT ![s] = @ + 1]
    /\ IF fanPos = Len(FanOrder)
         THEN /\ once' = "Done"
              /\ ipc' = [ipc EXCEPT ![h] = "idle"]
              /\ fanPos' = 0
              /\ returned' = returned + 1
         ELSE /\ fanPos' = fanPos + 1
              /\ UNCHANGED <<once, ipc, returned>>
    /\ UNCHANGED <<handles, fanouts, calls, contended>>
    /\ UNCHANGED <<stage, stop, lastOutcome, chanVars, focus, spawnVars, depVars, orderVars, iterVars, jobVars, storeVars>>

\* a caller blocked in call_once returns once the running closure is done
Unblock(h) ==
    /\ ipc[h] = "blocked"
    /\ once = "Done"
    /\ ipc' = [ipc EXCEPT ![h] = "idle"]
    /\ returned' = returned + 1
    /\ UNCHANGED <<handles, once, fanPos, fired, fanouts, calls, contended>>
    /\ UNCHANGED <<pipeVars, chanVars, focus, spawnVars, depVars, orderVars, iterVars, jobVars, storeVars>>

(***************************************************************************)
(* OneshotWriter::with_writer                                              *)
(***************************************************************************)
\* passes that may hold a OneshotWriter at the same time
MaxPasses == 2
\* values a key can be given are 0..MaxVal
MaxVal == 1

Passes == 1..MaxPasses
Keys == {"k1", "k2"}
Vals == 0..MaxVal

StoreInit ==
    /\ db = [k \in Keys |-> 0]
    /\ buf = [k \in Keys |-> 0]
    /\ wlock = 0
    /\ wpc = [p \in Passes |-> "idle"]
    /\ snap = [p \in Passes |-> [k \in Keys |-> 0]]
    /\ fret = [p \in Passes |-> "none"]
    /\ wres = [p \in Passes |-> "none"]

\* WriteManager::with_commit: run the closure on a fresh Writer; commit when
\* it returned Ok and hand back the commit's result, else drop the Writer
\* (abort) and hand back the closure's error
with_commit(committed, written, closure, commit) ==
    IF closure = "Ok" /\ commit = "Ok"
      THEN [db |-> written, res |-> "Ok"]
      ELSE [db |-> committed, res |-> "Err"]

\* with_writer that drops the Result of with_commit and always answers Ok
with_writer_swallow(committed, written, closure, commit) ==
    [db |-> with_commit(committed, written, closure, commit).db, res |-> "Ok"]

\* OneshotWriter::with_writer: `env_ref.with_commit(|w| { f(w)?; Ok(()) })?; Ok(())`
with_writer(committed, written, closure, commit) ==
    LET r == with_commit(committed, written, closure, commit) IN
    IF r.res = "Err" THEN [db |-> r.db, res |-> "Err"]
    ELSE [db |-> r.db, res |-> "Ok"]

\* with_writer is entered: the guard is taken and the write transaction
\* opened (one writer at a time on the environment)
WriterBegin(p) ==
    /\ wpc[p] = "idle"
    /\ wlock = 0
    /\ wlock' = p
    /\ wpc' = [wpc EXCEPT ![p] = "writing"]
    /\ buf' = db
    /\ snap' = [snap EXCEPT ![p] = db]
    /\ fret' = [fret EXCEPT ![p] = "none"]
    /\ wres' = [wres EXCEPT ![p] = "none"]
    /\ UNCHANGED <<db, chanVars, pipeVars, bootVars, focus, spawnVars, depVars, orderVars, iterVars, jobVars>>

\* the closure writes through the &mut Writer
WriterPut(p, k, v) ==
    /\ wpc[p] = "writing"
    /\ buf' = [buf EXCEPT ![k] = v]
    /\ UNCHANGED <<db, wlock, wpc, snap, fret, wres, chanVars, pipeVars, bootVars, focus, spawnVars, depVars, orderVars, iterVars, jobVars>>

\* the closure returns and with_writer returns: commit or abort, the
\* Writer and the guard are released
WriterEnd(p, closure, commit) ==
    /\ wpc[p] = "writing"
    /\ LET r == with_writer(db, buf, closure, commit) IN
         /\ db' = r.db
         /\ wres' = [wres EXCEPT ![p] = r.res]
    /\ fret' = [fret EXCEPT ![p] = closure]
    /\ wpc' = [wpc EXCEPT ![p] = "idle"]
    /\ wlock' = 0
    /\ UNCHANGED <<buf, snap, chanVars, pipeVars, bootVars, focus, spawnVars, depVars, orderVars, iterVars, jobVars>>

NextStore ==
    \/ \E p \in Passes : WriterBegin(p)
    \/ \E p \in Passes, k \in Keys, v \in Vals : WriterPut(p, k, v)
    \/ \E p \in Passes, closure \in {"Ok", "Err"}, commit \in {"Ok", "Err"} :
          WriterEnd(p, closure, commit)

(***************************************************************************)
(* sys_validate::present: looking up a dependency in the workspace.  One   *)
(* header hash is asked for, with the hash of its entry; a payload is      *)
(* named by what it is, an error by its kind and the hash it carries.      *)
(***************************************************************************)
Tiers == {"vault", "judged", "pending"}
ElemStates == {"Absent", "NoEntry", "Full"}
HeaderKinds == {"Create", "CreateLink"}
CheckLevels == {"Proof", "Claim"}
\* the tier whose store fails to be read during a lookup, if any
BadReads == Tiers \cup {"none"}
\* what the network answers to a retrieve: Ok(Some), Ok(None) or Err
NetAnswers == {"Some", "None", "Err"}

\* no dependency: the operand of a lookup that is not a min
NoDep == [out |-> "none", val |-> "none"]

NoLookup ==
    [fn |-> "none", level |-> "Proof", bad |-> "none", net |-> "None",
     a |-> NoDep, b |-> NoDep,
     out |-> "none", val |-> "none", netq |-> 0]

\* a workspace holding nothing
DepInit ==
    /\ elem = [t \in Tiers |-> "Absent"]
    /\ meta = [t \in Tiers |-> FALSE]
    /\ hkind = "Create"
    /\ lookup = NoLookup

workspace == [elem |-> elem, meta |-> meta, hkind |-> hkind]

\* check_holding_header: get_header(&hash)? then ok_or_else(NotHoldingDep)
check_holding_header(w, t, bad) ==
    IF bad = t THEN [res |-> "Err", val |-> "DatabaseError"]
    ELSE IF w.elem[t] = "Absent" THEN [res |-> "NotHoldingDep", val |-> "header_hash"]
    ELSE [res |-> "Ok", val |-> "header"]

\* check_holding_element that does not look for the entry of the element
check_holding_element_any(w, t, bad) ==
    IF bad = t THEN [res |-> "Err", val |-> "DatabaseError"]
    ELSE IF w.elem[t] = "Absent" THEN [res |-> "NotHoldingDep", val |-> "header_hash"]
    ELSE [res |-> "Ok", val |-> "element"]

\* check_holding_element: get_element(&hash)?, NotHoldingDep when there is
\* none or when el.entry().as_option() is None
check_holding_element(w, t, bad) ==
    IF bad = t THEN [res |-> "Err", val |-> "DatabaseError"]
    ELSE IF w.elem[t] = "Absent" THEN [res |-> "NotHoldingDep", val |-> "header_hash"]
    ELSE IF w.elem[t] = "NoEntry" THEN [res |-> "NotHoldingDep", val |-> "header_hash"]
    ELSE [res |-> "Ok", val |-> "element"]

\* check_holding_entry: the first header the metadata lists for the entry
\* hash, then get_element of that header; NotHoldingDep when either is none
check_holding_entry(w, t, bad) ==
    IF bad = t THEN [res |-> "Err", val |-> "DatabaseError"]
    ELSE IF ~w.meta[t] THEN [res |-> "NotHoldingDep", val |-> "entry_hash"]
    ELSE IF w.elem[t] = "Absent" THEN [res |-> "NotHoldingDep", val |-> "entry_hash"]
    ELSE [res |-> "Ok", val |-> "element"]

\* check_holding! that goes on to the next store on any error
check_holding_skips_errors(r, dep) ==
    CASE r.res = "NotHoldingDep" -> [out |-> "next", val |-> r.val]
      [] r.res = "Err"           -> [out |-> "next", val |-> r.val]
      [] OTHER                   -> [out |-> dep, val |-> r.val]

\* check_holding! that grades every hit as Proof
check_holding_always_proof(r, dep) ==
    CASE r.res = "NotHoldingDep" -> [out |-> "next", val |-> r.val]
      [] r.res = "Err"           -> [out |-> "Error", val |-> r.val]
      [] OTHER                   -> [out |-> "Proof", val |-> r.val]

\* check_holding!: NotHoldingDep falls through to the next statement
\* ("next"), any other error is returned, a hit is returned as Dependency::dep
check_holding(r, dep) ==
    CASE r.res = "NotHoldingDep" -> [out |-> "next", val |-> r.val]
      [] r.res = "Err"           -> [out |-> "Error", val |-> r.val]
      [] OTHER                   -> [out |-> dep, val |-> r.val]

\* check_holding_el!, check_holding_entry!, check_holding_meta!: the results
\* of the same check on the vault, judged and pending stores, in that order
check_holding_el(v, j, p) ==
    LET a == check_holding(v, "Proof") IN
    IF a.out # "next" THEN a
    ELSE LET b == check_holding(j, "Proof") IN
         IF b.out # "next" THEN b
         ELSE check_holding(p, "PendingValidation")

\* check_holding_header_inner that does not look at the judged store
check_holding_header_inner_skip_judged(w, bad) ==
    LET r == check_holding_el(check_holding_header(w, "vault", bad),
                              [res |-> "NotHoldingDep", val |-> "header_hash"],
                              check_holding_header(w, "pending", bad)) IN
    IF r.out # "next" THEN r
    ELSE [out |-> "NotHoldingDep", val |-> "header_hash"]

\* check_holding_header_inner that does not look at the pending store
check_holding_header_inner_skip_pending(w, bad) ==
    LET r == check_holding_el(check_holding_header(w, "vault", bad),
                              check_holding_header(w, "judged", bad),
                              [res |-> "NotHoldingDep", val |-> "header_hash"]) IN
    IF r.out # "next" THEN r
    ELSE [out |-> "NotHoldingDep", val |-> "header_hash"]

check_holding_header_inner(w, bad) ==
    LET r == check_holding_el(check_holding_header(w, "vault", bad),
                              check_holding_header(w, "judged", bad),
                              check_holding_header(w, "pending", bad)) IN
    IF r.out # "next" THEN r
    ELSE [out |-> "NotHoldingDep", val |-> "header_hash"]

check_holding_element_inner(w, bad) ==
    LET r == check_holding_el(check_holding_element(w, "vault", bad),
                              check_holding_element(w, "judged", bad),
                              check_holding_element(w, "pending", bad)) IN
    IF r.out # "next" THEN r
    ELSE [out |-> "NotHoldingDep", val |-> "header_hash"]

\* check_holding_entry_inner whose error carries the header hash
check_holding_entry_inner_wrong_hash(w, bad) ==
    LET r == check_holding_el(check_holding_entry(w, "vault", bad),
                              check_holding_entry(w, "judged", bad),
                              check_holding_entry(w, "pending", bad)) IN
    IF r.out # "next" THEN r
    ELSE [out |-> "NotHoldingDep", val |-> "header_hash"]

check_holding_entry_inner(w, bad) ==
    LET r == check_holding_el(check_holding_entry(w, "vault", bad),
                              check_holding_entry(w, "judged", bad),
                              check_holding_entry(w, "pending", bad)) IN
    IF r.out # "next" THEN r
    ELSE [out |-> "NotHoldingDep", val |-> "entry_hash"]

\* retrieve that grades what the network returned as Proof
retrieve_as_proof(net, hash, payload) ==
    CASE net = "Err"  -> [out |-> "Error", val |-> "CascadeError", netq |-> 1]
      [] net = "None" -> [out |-> "DepMissingFromDht", val |-> hash, netq |-> 1]
      [] OTHER        -> [out |-> "Proof", val |-> payload, netq |-> 1]

\* retrieve that reports an empty answer as NotHoldingDep
retrieve_none_not_holding(net, hash, payload) ==
    CASE net = "Err"  -> [out |-> "Error", val |-> "CascadeError", netq |-> 1]
      [] net = "None" -> [out |-> "NotHoldingDep", val |-> hash, netq |-> 1]
      [] OTHER        -> [out |-> "Claim", val |-> payload, netq |-> 1]

\* retrieve that reports a failed fetch as DepMissingFromDht
retrieve_err_is_missing(net, hash, payload) ==
    CASE net = "Err"  -> [out |-> "DepMissingFromDht", val |-> hash, netq |-> 1]
      [] net = "None" -> [out |-> "DepMissingFromDht", val |-> hash, netq |-> 1]
      [] OTHER        -> [out |-> "Claim", val |-> payload, netq |-> 1]

\* cascade.retrieve(..).await?.ok_or_else(DepMissingFromDht(hash)), then
\* Dependency::Claim: one query of the network
retrieve(net, hash, payload) ==
    CASE net = "Err"  -> [out |-> "Error", val |-> "CascadeError", netq |-> 1]
      [] net = "None" -> [out |-> "DepMissingFromDht", val |-> hash, netq |-> 1]
      [] OTHER        -> [out |-> "Claim", val |-> payload, netq |-> 1]

check_header_exists(w, bad, net) ==
    LET r == check_holding_el(check_holding_header(w, "vault", bad),
                              check_holding_header(w, "judged", bad),
                              check_holding_header(w, "pending", bad)) IN
    IF r.out # "next" THEN [out |-> r.out, val |-> r.val, netq |-> 0]
    ELSE retrieve(net, "header_hash", "header")

\* check_element_exists that asks the network before the local stores
check_element_exists_eager(w, bad, net) ==
    LET r == check_holding_el(check_holding_element(w, "vault", bad),
                              check_holding_element(w, "judged", bad),
                              check_holding_element(w, "pending", bad)) IN
    IF r.out # "next" THEN [out |-> r.out, val |-> r.val, netq |-> 1]
    ELSE retrieve(net, "header_hash", "element")

check_element_exists(w, bad, net) ==
    LET r == check_holding_el(check_holding_element(w, "vault", bad),
                              check_holding_element(w, "judged", bad),
                              check_holding_element(w, "pending", bad)) IN
    IF r.out # "next" THEN [out |-> r.out, val |-> r.val, netq |-> 0]
    ELSE retrieve(net, "header_hash", "element")

check_entry_exists(w, bad, net) ==
    LET r == check_holding_el(check_holding_entry(w, "vault", bad),
                              check_holding_entry(w, "judged", bad),
                              check_holding_entry(w, "pending", bad)) IN
    IF r.out # "next" THEN [out |-> r.out, val |-> r.val, netq |-> 0]
    ELSE retrieve(net, "entry_hash", "element")

\* a lookup that did not go to the network
local(r) == [out |-> r.out, val |-> r.val, netq |-> 0]

\* check_holding_header_all that goes to the network at either check level
check_holding_header_all_ignores_level(w, level, bad, net) ==
    check_header_exists(w, bad, net)

check_holding_header_all(w, level, bad, net) ==
    IF level = "Proof" THEN local(check_holding_header_inner(w, bad))
    ELSE check_header_exists(w, bad, net)

check_holding_element_all(w, level, bad, net) ==
    IF level = "Proof" THEN local(check_holding_element_inner(w, bad))
    ELSE check_element_exists(w, bad, net)

check_holding_entry_all(w, level, bad, net) ==
    IF level = "Proof" THEN local(check_holding_entry_inner(w, bad))
    ELSE check_entry_exists(w, bad, net)

(***************************************************************************)
(* The metadata cross-references and the composite lookups                 *)
(***************************************************************************)
\* check_prev_header_in_metadata: get_activity(author)?.find(prev header),
\* NotHoldingDep of the header hash when there is none
check_prev_header_in_metadata(w, t, bad) ==
    IF bad = t THEN [res |-> "Err", val |-> "DatabaseError"]
    ELSE IF ~w.meta[t] THEN [res |-> "NotHoldingDep", val |-> "header_hash"]
    ELSE [res |-> "Ok", val |-> "unit"]

\* check_header_in_metadata: get_headers(entry_hash)?.find(header),
\* NotHoldingDep of the header hash when there is none
check_header_in_metadata(w, t, bad) ==
    IF bad = t THEN [res |-> "Err", val |-> "DatabaseError"]
    ELSE IF ~w.meta[t] THEN [res |-> "NotHoldingDep", val |-> "header_hash"]
    ELSE [res |-> "Ok", val |-> "unit"]

\* check_link_in_metadata without the conversion of the header
check_link_in_metadata_any_header(w, t, bad) ==
    IF bad = t THEN [res |-> "Err", val |-> "DatabaseError"]
    ELSE IF ~w.meta[t] THEN [res |-> "NotHoldingDep", val |-> "header_hash"]
    ELSE [res |-> "Ok", val |-> "unit"]

\* check_link_in_metadata: the header is converted to a CreateLink first
\* (NotCreateLink when it is not one), then get_links_all(key)?.next(),
\* NotHoldingDep of the header hash when there is none
check_link_in_metadata(w, t, bad) ==
    IF w.hkind # "CreateLink" THEN [res |-> "Err", val |-> "NotCreateLink"]
    ELSE IF bad = t THEN [res |-> "Err", val |-> "DatabaseError"]
    ELSE IF ~w.meta[t] THEN [res |-> "NotHoldingDep", val |-> "header_hash"]
    ELSE [res |-> "Ok", val |-> "unit"]

check_prev_header_in_metadata_all(w, bad) ==
    LET r == check_holding_el(check_prev_header_in_metadata(w, "vault", bad),
                              check_prev_header_in_metadata(w, "judged", bad),
                              check_prev_header_in_metadata(w, "pending", bad)) IN
    IF r.out # "next" THEN r
    ELSE [out |-> "NotHoldingDep", val |-> "header_hash"]

check_header_in_metadata_all(w, bad) ==
    LET r == check_holding_el(check_header_in_metadata(w, "vault", bad),
                              check_header_in_metadata(w, "judged", bad),
                              check_header_in_metadata(w, "pending", bad)) IN
    IF r.out # "next" THEN r
    ELSE [out |-> "NotHoldingDep", val |-> "header_hash"]

check_link_in_metadata_all(w, bad) ==
    LET r == check_holding_el(check_link_in_metadata(w, "vault", bad),
                              check_link_in_metadata(w, "judged", bad),
                              check_link_in_metadata(w, "pending", bad)) IN
    IF r.out # "next" THEN r
    ELSE [out |-> "NotHoldingDep", val |-> "header_hash"]

\* the Dependency variants, and their order of confidence
Graded == {"Proof", "Claim", "PendingValidation"}

rank(tag) ==
    CASE tag = "Proof" -> 2
      [] tag = "Claim" -> 1
      [] OTHER         -> 0

\* a min that keeps the first operand as it is
min_keeps_first(a, b) == a

\* Dependency::min: the first operand's payload under the weaker tag
min(a, b) ==
    [out |-> IF rank(b.out) < rank(a.out) THEN b.out ELSE a.out, val |-> a.val]

\* `let dep = check_prev_header_in_metadata_all(..)?;` then
\* `check_holding_header_inner(..)?.min(&dep)`
check_holding_prev_header_inner(w, bad) ==
    LET dep == check_prev_header_in_metadata_all(w, bad) IN
    IF dep.out \notin Graded THEN dep
    ELSE LET h == check_holding_header_inner(w, bad) IN
         IF h.out \notin Graded THEN h ELSE min(h, dep)

\* `let dep = check_header_in_metadata_all(..)?;` then
\* `check_holding_element_inner(..)?.min(&dep)`
check_holding_store_entry_inner(w, bad) ==
    LET dep == check_header_in_metadata_all(w, bad) IN
    IF dep.out \notin Graded THEN dep
    ELSE LET el == check_holding_element_inner(w, bad) IN
         IF el.out \notin Graded THEN el ELSE min(el, dep)

\* check_holding_link_add_inner that does not look at the metadata
check_holding_link_add_inner_header_only(w, bad) ==
    check_holding_header_inner(w, bad)

\* `let dep = check_holding_header_inner(..)?;` then
\* `let meta_dep = check_link_in_metadata_all(dep header, ..)?;` then
\* `dep.min(&meta_dep)`
check_holding_link_add_inner(w, bad) ==
    LET dep == check_holding_header_inner(w, bad) IN
    IF dep.out \notin Graded THEN dep
    ELSE LET meta_dep == check_link_in_metadata_all(w, bad) IN
         IF meta_dep.out \notin Graded THEN meta_dep ELSE min(dep, meta_dep)

check_holding_prev_header_all(w, level, bad, net) ==
    IF level = "Proof" THEN local(check_holding_prev_header_inner(w, bad))
    ELSE check_header_exists(w, bad, net)

check_holding_store_entry_all(w, level, bad, net) ==
    IF level = "Proof" THEN local(check_holding_store_entry_inner(w, bad))
    ELSE check_element_exists(w, bad, net)

check_holding_link_add_all(w, level, bad, net) ==
    IF level = "Proof" THEN local(check_holding_link_add_inner(w, bad))
    ELSE check_header_exists(w, bad, net)

(***************************************************************************)
(* The callers of the lookups                                              *)
(***************************************************************************)
\* the record kept of a lookup
asked(fn, level, bad, net, r) ==
    [fn |-> fn, level |-> level, bad |-> bad, net |-> net,
     a |-> NoDep, b |-> NoDep,
     out |-> r.out, val |-> r.val, netq |-> r.netq]

\* every variable but the record of the lookup
notLookup == <<elem, meta, hkind, chanVars, pipeVars, bootVars, focus,
               spawnVars, storeVars, orderVars, iterVars, jobVars>>

\* every variable but the record of the lookup and the three tiers
notStores == <<hkind, chanVars, pipeVars, bootVars, focus, spawnVars,
               storeVars, orderVars, iterVars, jobVars>>

\* a lookup that keeps what the network returned in the pending tier
stores_after_keeps_fetched(w, r) ==
    IF r.out = "Claim"
    THEN [elem |-> [w.elem EXCEPT !["pending"] = "Full"],
          meta |-> [w.meta EXCEPT !["pending"] = TRUE]]
    ELSE [elem |-> w.elem, meta |-> w.meta]

\* the three tiers when a lookup returns r: the stores are read through
\* fresh_reader! and get_header / get_element / get_headers / get_activity /
\* get_links_all, nothing is put into them
stores_after(w, r) ==
    [elem |-> w.elem, meta |-> w.meta]

\* a lookup has returned
Returned ==
    /\ elem' = stores_after(workspace, lookup').elem
    /\ meta' = stores_after(workspace, lookup').meta
    /\ UNCHANGED notStores

\* a caller looks the header up
CheckHeader(level, bad, net) ==
    /\ lookup.fn = "none"
    /\ lookup' = asked("header", level, bad, net,
                       check_holding_header_all(workspace, level, bad, net))
    /\ Returned

\* a caller looks the element of the header up
CheckElement(level, bad, net) ==
    /\ lookup.fn = "none"
    /\ lookup' = asked("element", level, bad, net,
                       check_holding_element_all(workspace, level, bad, net))
    /\ Returned

\* a caller looks the entry up
CheckEntry(level, bad, net) ==
    /\ lookup.fn = "none"
    /\ lookup' = asked("entry", level, bad, net,
                       check_holding_entry_all(workspace, level, bad, net))
    /\ Returned

\* a caller looks the header up as the previous header of its author
CheckPrevHeader(level, bad, net) ==
    /\ lookup.fn = "none"
    /\ lookup' = asked("prev_header", level, bad, net,
                       check_holding_prev_header_all(workspace, level, bad, net))
    /\ Returned

\* a caller looks the element up as the one a store entry op refers to
CheckStoreEntry(level, bad, net) ==
    /\ lookup.fn = "none"
    /\ lookup' = asked("store_entry", level, bad, net,
                       check_holding_store_entry_all(workspace, level, bad, net))
    /\ Returned

\* a caller looks the header up as the link add a link op refers to
CheckLinkAdd(level, bad, net) ==
    /\ lookup.fn = "none"
    /\ lookup' = asked("link_add", level, bad, net,
                       check_holding_link_add_all(workspace, level, bad, net))
    /\ Returned

\* a caller looks a metadata cross-reference up on its own
CheckPrevHeaderInMetadata(bad) ==
    /\ lookup.fn = "none"
    /\ lookup' = asked("prev_header_meta", "Proof", bad, "None",
                       local(check_prev_header_in_metadata_all(workspace, bad)))
    /\ Returned

CheckHeaderInMetadata(bad) ==
    /\ lookup.fn = "none"
    /\ lookup' = asked("header_meta", "Proof", bad, "None",
                       local(check_header_in_metadata_all(workspace, bad)))
    /\ Returned

CheckLinkInMetadata(bad) ==
    /\ lookup.fn = "none"
    /\ lookup' = asked("link_meta", "Proof", bad, "None",
                       local(check_link_in_metadata_all(workspace, bad)))
    /\ Returned

\* a caller combines two dependencies it holds
Min(a, b) ==
    /\ lookup.fn = "none"
    /\ lookup' = [asked("min", "Proof", "none", "None", local(min(a, b)))
                     EXCEPT !.a = a, !.b = b]
    /\ UNCHANGED notLookup

\* the caller is done with what the lookup returned
Done ==
    /\ lookup.fn # "none"
    /\ lookup' = NoLookup
    /\ UNCHANGED notLookup

\* the dependencies a caller can hold
Deps == [out : Graded, val : {"header", "element", "unit"}]

NextResolve ==
    \/ \E level \in CheckLevels, bad \in BadReads, net \in NetAnswers :
          \/ CheckHeader(level, bad, net)
          \/ CheckElement(level, bad, net)
          \/ CheckEntry(level, bad, net)
          \/ CheckPrevHeader(level, bad, net)
          \/ CheckStoreEntry(level, bad, net)
          \/ CheckLinkAdd(level, bad, net)
    \/ \E bad \in BadReads :
          \/ CheckPrevHeaderInMetadata(bad)
          \/ CheckHeaderInMetadata(bad)
          \/ CheckLinkInMetadata(bad)
    \/ \E a, b \in Deps : Min(a, b)
    \/ Done

(***************************************************************************)
(* spawn_queue_consumer_tasks                                              *)
(***************************************************************************)
\* the statements of spawn_queue_consumer_tasks in order: the consumers as
\* they are spawned, tx_sys sent through the oneshot channel, the return
\* a spawn_queue_consumer_tasks that never sends tx_sys into the oneshot
\* channel
SpawnOrder_without_send == <<"publish_dht_ops", "integrate_dht_ops",
                             "app_validation", "sys_validation",
                             "produce_dht_ops", "return">>

SpawnOrder == <<"publish_dht_ops", "integrate_dht_ops", "app_validation",
                "sys_validation", "create_tx_sys", "produce_dht_ops", "return">>

SpawnDone == Len(SpawnOrder)

\* the senders passed to spawn_<s>_consumer; the integrate consumer is
\* passed the receiving end of the oneshot channel instead
GivenAtSpawn(s) == IF s = "integrate_dht_ops" THEN {} ELSE Downstream(s)

\* spawn_<s>_consumer: the channel of s is made, the task keeps one sender
\* for its self-trigger and the senders passed in, the other is returned
spawn_consumer(t, s) ==
    [x \in Stages |->
        IF x = s THEN [NewChannel EXCEPT !.senders = 2]
        ELSE IF x \in GivenAtSpawn(s) THEN [t[x] EXCEPT !.senders = @ + 1]
        ELSE t[x]]

\* before spawn_queue_consumer_tasks is called: no channel, no task, no
\* InitialQueueTriggers
PipeNone ==
    /\ tx = [s \in Stages |-> [q |-> 0, senders |-> 0, rxAlive |-> FALSE]]
    /\ stage = [s \in Stages |-> "Unspawned"]
    /\ stop = "none"
    /\ lastOutcome = "none"
    /\ spawnPc = 0
    /\ slot = "none"

BootNone ==
    /\ handles = [h \in Handles |-> "Absent"]
    /\ once = "New"
    /\ ipc = [h \in Handles |-> "idle"]
    /\ fanPos = 0
    /\ fired = [s \in Stages |-> 0]
    /\ fanouts = 0
    /\ calls = 0
    /\ returned = 0
    /\ contended = FALSE

\* spawn_queue_consumer_tasks has returned
SpawnInit ==
    /\ spawnPc = SpawnDone
    /\ slot = "sent"

\* the next statement of spawn_queue_consumer_tasks, up to the await on
\* task_sender.send that follows it; nothing in it waits for a consumer
SpawnStep ==
    /\ spawnPc < SpawnDone
    /\ spawnPc' = spawnPc + 1
    /\ LET step == SpawnOrder[spawnPc + 1] IN
         CASE step \in Stages ->
                /\ tx' = spawn_consumer(tx, step)
                /\ stage' = [stage EXCEPT ![step] = "Idle"]
                /\ slot' = IF step = "integrate_dht_ops" THEN "empty" ELSE slot
                /\ UNCHANGED handles
           [] step = "create_tx_sys" ->
                /\ tx' = [tx EXCEPT !["sys_validation"].senders = @ + 1]
                /\ slot' = "sent"
                /\ UNCHANGED <<stage, handles>>
           [] OTHER ->
                /\ handles' = [handles EXCEPT ![1] = "Some"]
                /\ UNCHANGED <<tx, stage, slot>>
    /\ UNCHANGED <<stop, lastOutcome, once, ipc, fanPos, fired, fanouts, calls,
                   returned, contended>>
    /\ UNCHANGED <<chanVars, focus, depVars, orderVars, iterVars, jobVars, storeVars>>

(***************************************************************************)
(* A pass that writes, commits and triggers, and the pass it wakes.  The   *)
(* store is seen as the number of write transactions committed to it.     *)
(***************************************************************************)
MaxCommits == 3

OrderInit ==
    /\ ver = 0
    /\ ppc = "idle"
    /\ pfor = 0
    /\ sentFor = 0
    /\ dpc = "idle"
    /\ wokeFor = 0
    /\ readVer = 0

\* the variables of the program a pass of this kind does not touch
notOrder == <<stage, stop, lastOutcome, chanVars, bootVars, focus, spawnVars,
              depVars, storeVars, iterVars, jobVars>>

\* a workflow that triggers the next stage whatever with_writer returned
flushed_always(res) == TRUE

\* the workflow goes on to trigger the next stage when with_writer returned
\* Ok; an Err leaves the workflow through `?`
flushed(res) == res = "Ok"

\* the workflow of the focus stage has done its work on the workspace and
\* enters with_writer
ProducerBegin ==
    /\ ppc = "idle"
    /\ ver < MaxCommits
    /\ ppc' = "writing"
    /\ pfor' = ver + 1
    /\ UNCHANGED <<ver, sentFor, dpc, wokeFor, readVer, tx, notOrder>>

\* the closure flushes the workspace and with_writer returns
ProducerEnd(closure, commit) ==
    /\ ppc = "writing"
    /\ LET r == with_writer(ver, pfor, closure, commit) IN
         /\ ver' = r.db
         /\ ppc' = IF flushed(r.res) THEN "flushed" ELSE "idle"
    /\ UNCHANGED <<pfor, sentFor, dpc, wokeFor, readVer, tx, notOrder>>

\* the workflow triggers the stage downstream of it
ProducerTrigger ==
    /\ ppc = "flushed"
    /\ tx' = trigger_all(tx, Downstream(focus))
    /\ sentFor' = pfor
    /\ ppc' = "idle"
    /\ UNCHANGED <<ver, pfor, dpc, wokeFor, readVer, notOrder>>

\* the downstream consumer gets Job::Run and its workflow opens its read
\* transaction on the committed store
ConsumerWake(d) ==
    /\ d \in Downstream(focus)
    /\ dpc = "idle"
    /\ LET r == next_job_or_exit(tx[d], stop) IN
         /\ r.job = "Run"
         /\ tx' = [tx EXCEPT ![d] = r.ch]
    /\ dpc' = "reading"
    /\ wokeFor' = sentFor
    /\ readVer' = ver
    /\ UNCHANGED <<ver, ppc, pfor, sentFor, notOrder>>

\* the downstream pass ends
ConsumerDone ==
    /\ dpc = "reading"
    /\ dpc' = "idle"
    /\ UNCHANGED <<ver, ppc, pfor, sentFor, wokeFor, readVer, tx, notOrder>>

NextOrder ==
    \/ ProducerBegin
    \/ \E closure \in {"Ok", "Err"}, commit \in {"Ok", "Err"} :
          ProducerEnd(closure, commit)
    \/ ProducerTrigger
    \/ \E d \in Stages : ConsumerWake(d)
    \/ ConsumerDone

(***************************************************************************)
(* ribosome::guest_callback: CallIterator.  Zomes and callback components  *)
(* are numbered from 1; maybe_call answers Some, None or an error for each *)
(* pair of them.                                                           *)
(***************************************************************************)
MaxZomes == 2
MaxComps == 2

\* invocation.fn_components(): a fresh iterator over the nc components
fn_components(nc) == [c \in 1..nc |-> c]

\* ribosome.zomes_to_invoke(invocation.zomes())
zomes_to_invoke(nz) == [z \in 1..nz |-> z]

\* ribosome.maybe_call(host_access, invocation, zome_name, to_call)
maybe_call(s, z, c) ==
    IF s.err = <<z, c>> THEN "Err"
    ELSE IF <<z, c>> \in s.none THEN "None"
    ELSE "Some"

\* CallIterator::new on nz zomes and nc components
new(nz, nc, none, err) ==
    [nz |-> nz, nc |-> nc, none |-> none, err |-> err,
     remaining_zomes |-> zomes_to_invoke(nz),
     remaining_components |-> fn_components(nc),
     fetches |-> 1, calls |-> <<>>, out |-> <<>>, last |-> "none"]

\* an iterator on nothing
IterInit == it = new(0, 0, {}, <<0, 0>>)

RECURSIVE next_ends_at_skip(_)
\* a next() that returns None when maybe_call returned None
next_ends_at_skip(s) ==
    IF s.remaining_zomes = <<>> THEN [s EXCEPT !.last = "None"]
    ELSE IF s.remaining_components = <<>>
      THEN next_ends_at_skip([s EXCEPT !.remaining_components = fn_components(s.nc),
                                       !.fetches = @ + 1,
                                       !.remaining_zomes = Tail(@)])
      ELSE LET z == Head(s.remaining_zomes)
               c == Head(s.remaining_components)
               s1 == [s EXCEPT !.remaining_components = Tail(@),
                               !.calls = Append(@, <<z, c>>)]
               a == maybe_call(s, z, c)
           IN CASE a = "Err"  -> [s1 EXCEPT !.last = "Err"]
                [] a = "Some" -> [s1 EXCEPT !.last = "Some", !.out = Append(@, <<z, c>>)]
                [] OTHER      -> [s1 EXCEPT !.last = "None"]

RECURSIVE next(_)
\* FallibleIterator::next: the first zome with the next component; a None
\* of maybe_call and the end of the components go on with self.next()
next(s) ==
    IF s.remaining_zomes = <<>> THEN [s EXCEPT !.last = "None"]
    ELSE IF s.remaining_components = <<>>
      THEN next([s EXCEPT !.remaining_components = fn_components(s.nc),
                          !.fetches = @ + 1,
                          !.remaining_zomes = Tail(@)])
      ELSE LET z == Head(s.remaining_zomes)
               c == Head(s.remaining_components)
               s1 == [s EXCEPT !.remaining_components = Tail(@),
                               !.calls = Append(@, <<z, c>>)]
               a == maybe_call(s, z, c)
           IN CASE a = "Err"  -> [s1 EXCEPT !.last = "Err"]
                [] a = "Some" -> [s1 EXCEPT !.last = "Some", !.out = Append(@, <<z, c>>)]
                [] OTHER      -> next(s1)

\* the holder of the iterator calls next()
IterNext ==
    /\ it' = next(it)
    /\ UNCHANGED <<chanVars, pipeVars, bootVars, focus, spawnVars, depVars,
                   storeVars, orderVars, jobVars>>

(***************************************************************************)
(* Specifications                                                          *)
(***************************************************************************)
Init ==
    /\ ChanInit /\ PipeInit /\ BootInit /\ StoreInit /\ SpawnInit /\ DepInit
    /\ OrderInit /\ IterInit /\ JobInit
    /\ focus = "all"

\* one trigger channel with free-standing senders and one listener
SpecChan == Init /\ [][NextChan]_vars

\* the executor keeps polling a listen() that can make progress
FairChan == SpecChan /\ WF_vars(ListenRecv) /\ WF_vars(ListenDrain)

\* InitialQueueTriggers and its clones, called from any number of threads
NextBoot ==
    \/ \E h, h2 \in Handles : CloneHandle(h, h2)
    \/ \E h \in Handles : InitCall(h)
    \/ \E h \in Handles : FanoutStep(h)
    \/ \E h \in Handles : Unblock(h)

SpecBoot == Init /\ [][NextBoot]_vars

\* the running pipeline: the five consumers, outside triggers and the
\* shutdown broadcast
Next ==
    \/ \E s \in Stages : NextJob(s)
    \/ \E s \in Stages, o \in {"Complete", "Incomplete", "Error"} :
          \E fires \in SUBSET Downstream(s) : FinishPass(s, o, fires)
    \/ \E s \in PublicTriggers : ExternalTrigger(s)
    \/ Shutdown

Spec == Init /\ [][Next]_vars

\* every consumer is a spawned tokio task: it is polled whenever it can step
FairSpec ==
    /\ Spec
    /\ \A s \in Stages : WF_vars(NextJob(s))
    /\ \A s \in Stages : WF_vars(\E o \in {"Complete", "Incomplete", "Error"} :
                                   \E fires \in SUBSET Downstream(s) : FinishPass(s, o, fires))

(***************************************************************************)
(* Trigger channel: claims C1-C4                                           *)
(***************************************************************************)

\* C1 (coalescing): after N >= 1 trigger() calls, N above the capacity
\* included, a listen() does not suspend (a signal is queued, or it is
\* already draining) and resolves Ok while a sender is alive; and between
\* two trigger() calls listen() returns Ok at most once, so a further
\* listen() with no new trigger() finds the queue empty and stays suspended.
C1_Coalescing ==
    /\ oksSinceTrig <= 1
    /\ (chan.rxAlive /\ chan.senders > 0 /\ batch >= 1)
          => (chan.q >= 1 \/ lpc = "drain")
    /\ (chan.rxAlive /\ chan.senders > 0 /\ batch = 0 /\ lpc = "recv")
          => chan.q = 0
    /\ (chan.rxAlive /\ chan.senders > 0) => lres # "Closed"

\* more trigger() calls than the channel holds were answered by one Ok, and
\* the next listen() is suspended on an empty queue
C1_Witness ==
    /\ lastBatch > NumCpus
    /\ oksSinceTrig = 1
    /\ lres = "Ok"
    /\ lpc = "recv"
    /\ chan.q = 0
    /\ chan.senders > 0

\* C2 as claimed (no wakeup is ever lost, under any interleaving of
\* triggers, sender drops and listens): a listen() never resolves as closed
\* while a trigger() made since the last Ok is still owed its wakeup, and
\* no trigger() is answered by more than one Ok.
C2_NoWakeupLost ==
    /\ (chan.rxAlive /\ batch >= 1) => ~(lpc = "idle" /\ lres = "Closed")
    /\ oksSinceTrig <= 1

\* C2 as amended: a trigger() owed its wakeup to a listen() in progress is
\* answered by an Ok unless every sender has been dropped before the drain
\* loop saw the queue empty (then the listen() resolves as closed); a
\* listen() resolves as closed only when no sender is left; and no
\* trigger() is answered by more than one Ok.
C2_WakeupKeptWhileSenderAlive ==
    /\ ((chan.rxAlive /\ batch >= 1 /\ lpc # "idle")
           ~> (batch = 0 \/ chan.senders = 0))
    /\ [](lres = "Closed" => chan.senders = 0)
    /\ [](oksSinceTrig <= 1)

\* a trigger() that found the channel full was still answered by an Ok
C2_Witness ==
    /\ lres = "Ok"
    /\ lpc = "idle"
    /\ batch = 0
    /\ lastBatch > NumCpus
    /\ chan.senders > 0

\* C3 (closed detection): once every sender is dropped, a listen() in
\* progress (suspended in recv() or draining) resolves, and every listen()
\* that completes from then on resolves with QueueTriggerClosedError.
C3_ClosedDetection ==
    /\ [][(chan.senders = 0 /\ lpc # "idle" /\ lpc' = "idle")
            => lres' = "Closed"]_vars
    /\ ((chan.senders = 0 /\ lpc # "idle")
           ~> (lpc = "idle" /\ lres = "Closed"))

\* a listen() resolved as closed on an empty channel without senders
C3_Witness ==
    /\ chan.senders = 0
    /\ chan.q = 0
    /\ chan.rxAlive
    /\ lpc = "idle"
    /\ lres = "Closed"
    /\ batch = 0

\* C4: trigger() is always possible for a live sender, touches nothing but
\* the queue, adds exactly one signal when there is room, leaves the queue
\* alone when it is full, changes nothing once the receiver is dropped, and
\* the queue never holds more than the capacity.
C4_TriggerNeverFails ==
    /\ [][batch' = batch + 1 =>
            /\ chan'.senders = chan.senders
            /\ chan'.rxAlive = chan.rxAlive
            /\ lpc' = lpc
            /\ lres' = lres
            /\ (chan.rxAlive /\ chan.q < NumCpus) => chan'.q = chan.q + 1
            /\ (chan.rxAlive /\ chan.q >= NumCpus) => chan'.q = chan.q
            /\ ~chan.rxAlive => chan' = chan]_vars
    /\ [](chan.q <= NumCpus)
    /\ []((chan.senders > 0 /\ batch < MaxBatch) => ENABLED Trigger)

\* a trigger() met a full channel: more calls than signals queued, and no
\* listen() has taken any signal yet
C4_Witness ==
    /\ chan.q = NumCpus
    /\ batch > NumCpus
    /\ lpc = "idle"
    /\ lres = "none"
    /\ chan.rxAlive

\* one consumer followed on its own: the other tasks are not scheduled, and
\* all they could do to this one, a trigger() on its channel, is StageTrigger
InitStage ==
    /\ ChanInit /\ PipeInit /\ BootInit /\ StoreInit /\ SpawnInit /\ DepInit
    /\ OrderInit /\ IterInit /\ JobInit
    /\ focus \in Stages

StageJob == \E s \in Stages : s = focus /\ NextJob(s)

StagePass ==
    \E s \in Stages, o \in {"Complete", "Incomplete", "Error"} :
       \E fires \in SUBSET Downstream(s) : s = focus /\ FinishPass(s, o, fires)

StageTrigger == \E s \in Stages : s = focus /\ ExternalTrigger(s)

NextStage ==
    \/ StageJob
    \/ StagePass
    \/ StageTrigger
    \/ Shutdown

SpecStage == InitStage /\ [][NextStage]_vars

\* the consumer is a spawned tokio task: it is polled whenever it can step
FairStage == SpecStage /\ WF_vars(StageJob) /\ WF_vars(StagePass)

\* passes writing to the shared environment through OneshotWriter
SpecStore == Init /\ [][NextStore]_vars

\* start-up: spawn_queue_consumer_tasks, then initialize_workflows() on the
\* value it returned and the passes of the consumer followed; nobody else
\* triggers and the shutdown broadcast is not sent
InitSpawn ==
    /\ ChanInit /\ PipeNone /\ BootNone /\ StoreInit /\ DepInit
    /\ OrderInit /\ IterInit /\ JobInit
    /\ focus \in Stages

NextSpawn ==
    \/ SpawnStep
    \/ \E h \in Handles : InitCall(h)
    \/ \E h \in Handles : FanoutStep(h)
    \/ StageJob
    \/ StagePass

SpecSpawn == InitSpawn /\ [][NextSpawn]_vars

\* the closure of initialize_workflows runs to its end on the caller's
\* thread, and the consumer is polled whenever it can step
FairSpawn ==
    /\ SpecSpawn
    /\ WF_vars(\E h \in Handles : FanoutStep(h))
    /\ WF_vars(StageJob)
    /\ WF_vars(StagePass)

\* lookups on any workspace
InitResolve ==
    /\ ChanInit /\ PipeInit /\ BootInit /\ StoreInit /\ SpawnInit
    /\ OrderInit /\ IterInit /\ JobInit
    /\ focus = "all"
    /\ elem \in [Tiers -> ElemStates]
    /\ meta \in [Tiers -> BOOLEAN]
    /\ hkind \in HeaderKinds
    /\ lookup = NoLookup

SpecResolve == InitResolve /\ [][NextResolve]_vars

\* one stage that has a stage downstream of it, its passes and the passes
\* of that stage
InitOrder ==
    /\ ChanInit /\ PipeInit /\ BootInit /\ StoreInit /\ SpawnInit /\ DepInit
    /\ OrderInit /\ IterInit /\ JobInit
    /\ focus \in {s \in Stages : Downstream(s) # {}}

SpecOrder == InitOrder /\ [][NextOrder]_vars

\* a CallIterator built on up to MaxZomes zomes and MaxComps components,
\* with a maybe_call that answers None on the pairs in `none` and fails on
\* the pair `err`, polled until it ends and after
InitIter ==
    /\ ChanInit /\ PipeInit /\ BootInit /\ StoreInit /\ SpawnInit /\ DepInit
    /\ OrderInit /\ JobInit
    /\ focus = "all"
    /\ \E nz \in 0..MaxZomes, nc \in 0..MaxComps :
          \E none \in SUBSET ((1..nz) \X (1..nc)),
             err \in ((1..nz) \X (1..nc)) \cup {<<0, 0>>} :
                it = new(nz, nc, none, err)

SpecIter == InitIter /\ [][IterNext]_vars

\* next_job_or_exit on a channel of its own, with the broadcast receiver in
\* each of the states it can be in
InitJob ==
    /\ ChanInit /\ BootInit /\ StoreInit /\ SpawnInit /\ DepInit
    /\ OrderInit /\ IterInit /\ JobInit
    /\ focus = "all"
    /\ tx = [s \in Stages |-> [q |-> 0, senders |-> SendersAtSpawn(s), rxAlive |-> TRUE]]
    /\ stage = [s \in Stages |-> "Idle"]
    /\ lastOutcome = "none"
    /\ stop \in StopStates

SpecJob == InitJob /\ [][NextJobOrExit]_vars

(***************************************************************************)
(* Bootstrap, shutdown and the stage loop: claims C5-C9                    *)
(***************************************************************************)

\* C5 (idempotent bootstrap): however many times initialize_workflows() is
\* called, on one value or on clones made before or after the first call,
\* one after another or at once, the closure starts at most once and fires
\* each stage's trigger at most once; and as soon as any call has returned
\* it has run exactly once and fired each of the five triggers exactly once.
C5_IdempotentBootstrap ==
    /\ fanouts <= 1
    /\ \A s \in Stages : fired[s] <= 1
    /\ returned >= 1 => (fanouts = 1 /\ \A s \in Stages : fired[s] = 1)

\* every handle was used, one call had to wait for the running closure, all
\* the calls have returned, and each trigger was fired once
C5_Witness ==
    /\ returned = MaxCalls
    /\ contended
    /\ \A h \in Handles : handles[h] = "None" /\ ipc[h] = "idle"
    /\ fanouts = 1
    /\ \A s \in Stages : fired[s] = 1 /\ tx[s].q = 1

\* C6 (shutdown priority): an Idle stage that polls next_job_or_exit with a
\* trigger queued and the shutdown broadcast already sent leaves Idle for
\* Stopped (Job::Shutdown), never for Running (Job::Run).
C6_ShutdownPriority ==
    [][\A s \in Stages :
          (stage[s] = "Idle" /\ tx[s].q > 0 /\ stop = "sent" /\ stage'[s] # "Idle")
             => stage'[s] = "Stopped"]_vars

\* C7 (global shutdown liveness): once the shutdown broadcast is sent, every
\* stage eventually reaches Stopped under fair scheduling, also a stage that
\* keeps being triggered.
C7_GlobalShutdownLiveness ==
    (stop = "sent") ~> (\A s \in Stages : stage[s] = "Stopped")

\* C8 (no mid-pass preemption): no stage goes from Running to Stopped; a
\* stage stops only from Idle, and a Running stage leaves Running only for
\* Idle, whether or not the shutdown broadcast has been sent.
C8_NoMidPassPreemption ==
    [][\A s \in Stages :
          /\ (stage[s] = "Running" /\ stage'[s] # "Running") => stage'[s] = "Idle"
          /\ (stage[s] # "Stopped" /\ stage'[s] = "Stopped") => stage[s] = "Idle"]_vars

\* the shutdown broadcast has been sent while a pass is running, and another
\* stage has already stopped
C8_Witness ==
    /\ stop = "sent"
    /\ \E s \in Stages : stage[s] = "Running"
    /\ \E s \in Stages : stage[s] = "Stopped"

\* C9 (self-retriggering): a pass that returns Incomplete leaves a signal on
\* the stage's own channel; an Idle stage with a signal on its channel runs
\* a further pass without any outside trigger (shutdown aside, which the
\* claim does not speak of); and each wakeup takes every queued signal, so
\* one wakeup starts one pass however many were queued.
C9_SelfRetrigger ==
    /\ [][\A s \in Stages :
            /\ (stage[s] = "Running" /\ stage'[s] = "Idle"
                   /\ lastOutcome' = "Incomplete") => tx'[s].q >= 1
            /\ (stage[s] = "Idle" /\ stage'[s] = "Running") => tx'[s].q = 0]_vars
    /\ \A s \in Stages :
          (focus = s /\ stage[s] = "Idle" /\ tx[s].q >= 1)
             ~> (stage[s] = "Running" \/ stop = "sent")

\* publish, which no outside caller can trigger, is running again after a
\* pass returned Incomplete, with nothing left on its channel
C9_Witness ==
    /\ focus = "publish_dht_ops"
    /\ lastOutcome = "Incomplete"
    /\ stage["publish_dht_ops"] = "Running"
    /\ tx["publish_dht_ops"].q = 0
    /\ \A s \in Stages \ {"publish_dht_ops"} : stage[s] = "Idle" /\ tx[s].q = 0

(***************************************************************************)
(* OneshotWriter: claim C10                                                *)
(***************************************************************************)

\* C10 (commit-or-abort): while a pass is writing, the committed store is
\* still what it was when the pass opened its writer; the committed store
\* changes only in the step in which a pass ends whose closure returned Ok,
\* and then to exactly what that pass wrote; a pass whose closure returned
\* an error leaves the committed store as it was, releases the write lock,
\* and with_writer returns that error.
C10_CommitOrAbort ==
    /\ [](\A p \in Passes : wpc[p] = "writing" => db = snap[p])
    /\ [][db' # db =>
            \E p \in Passes :
               /\ wpc[p] = "writing" /\ wpc'[p] = "idle"
               /\ fret'[p] = "Ok" /\ wres'[p] = "Ok"
               /\ db' = buf]_vars
    /\ [][\A p \in Passes :
            (wpc[p] = "writing" /\ wpc'[p] = "idle")
               => /\ wlock' = 0
                  /\ (fret'[p] = "Err" => (db' = snap[p] /\ wres'[p] = "Err"))
                  /\ (wres'[p] = "Ok" => db' = buf)]_vars

\* a pass wrote to the store, its closure failed, with_writer returned the
\* error and the committed store still is what an earlier pass committed
C10_Witness ==
    \E p \in Passes :
       /\ wpc[p] = "idle"
       /\ fret[p] = "Err"
       /\ wres[p] = "Err"
       /\ buf # db
       /\ db = snap[p]
       /\ db # [k \in Keys |-> 0]
       /\ wlock = 0

(***************************************************************************)
(* Failed passes, the stage graph and start-up: claims C11-C17             *)
(***************************************************************************)

\* C11 (a failed pass does not halt the stage): the step in which a pass
\* ends with an error takes the stage to Idle, not to Stopped, and changes
\* neither the state nor the channel of any other stage; and a stage that
\* is Idle after a failed pass and has a signal on its channel runs a new
\* pass (shutdown aside, which the claim does not speak of).
C11_FailedPassDoesNotHalt ==
    /\ [][\A s \in Stages :
            (stage[s] = "Running" /\ stage'[s] # "Running" /\ lastOutcome' = "Error")
               => /\ stage'[s] = "Idle"
                  /\ \A x \in Stages \ {s} : stage'[x] = stage[x] /\ tx'[x] = tx[x]]_vars
    /\ \A s \in Stages :
          (focus = s /\ lastOutcome = "Error" /\ stage[s] = "Idle" /\ tx[s].q >= 1)
             ~> (stage[s] = "Running" \/ stop = "sent")

\* the pass before failed, the stage was triggered again and a new pass is
\* running, with no shutdown in sight
C11_Witness ==
    \E s \in Stages :
       /\ focus = s
       /\ lastOutcome = "Error"
       /\ stage[s] = "Running"
       /\ stop = "none"
       /\ \A x \in Stages \ {s} : stage[x] = "Idle"

\* a pass of s ends in this step and changes the channel of another stage
PassFires(s) ==
    /\ stage[s] = "Running"
    /\ stage'[s] = "Idle"
    /\ \E x \in Stages \ {s} : tx'[x] # tx[x]

\* this step puts one more signal on the channel of s
Woken(s) == tx'[s] # tx[s] /\ tx'[s] = trigger(tx[s])

\* C12 (edge Produce -> Integrate): while its task lives, the Produce
\* consumer holds a sender of Integrate's channel, and a Produce pass that
\* fires a downstream trigger puts a signal on Integrate's channel.
C12_ProduceWakesIntegrate ==
    /\ [](stage["produce_dht_ops"] \in {"Idle", "Running"}
             => "integrate_dht_ops" \in held("produce_dht_ops"))
    /\ [][PassFires("produce_dht_ops") => Woken("integrate_dht_ops")]_vars

\* C13 (edge Integrate -> Publish): while its task lives, the Integrate
\* consumer holds a sender of Publish's channel, and an Integrate pass that
\* fires a downstream trigger puts a signal on Publish's channel.
C13_IntegrateWakesPublish ==
    /\ [](stage["integrate_dht_ops"] \in {"Idle", "Running"}
             => "publish_dht_ops" \in held("integrate_dht_ops"))
    /\ [][PassFires("integrate_dht_ops") => Woken("publish_dht_ops")]_vars

\* C14 (edge Sys-Validate -> App-Validate): while its task lives, the
\* Sys-Validate consumer holds the sender of App-Validate's channel and no
\* other downstream sender; a Sys-Validate pass changes no channel but its
\* own and App-Validate's, and one that fires a downstream trigger puts a
\* signal on App-Validate's channel.
C14_SysWakesApp ==
    /\ [](stage["sys_validation"] \in {"Idle", "Running"}
             => held("sys_validation") = {"app_validation"})
    /\ [][(stage["sys_validation"] = "Running" /\ stage'["sys_validation"] = "Idle")
             => \A x \in Stages \ {"sys_validation", "app_validation"} :
                   tx'[x] = tx[x]]_vars
    /\ [][PassFires("sys_validation") => Woken("app_validation")]_vars

\* App-Validate, which only a Sys-Validate pass can trigger here, has a
\* signal queued after a pass, and nothing else is queued or running
C14_Witness ==
    /\ tx["app_validation"].q = 1
    /\ lastOutcome = "Complete"
    /\ stop = "none"
    /\ \A s \in Stages : stage[s] = "Idle"
    /\ \A s \in Stages \ {"app_validation"} : tx[s].q = 0

\* C15 (edge App-Validate -> Integrate): while its task lives, the
\* App-Validate consumer holds a sender of Integrate's channel, and an
\* App-Validate pass that fires a downstream trigger puts a signal on
\* Integrate's channel.
C15_AppWakesIntegrate ==
    /\ [](stage["app_validation"] \in {"Idle", "Running"}
             => "integrate_dht_ops" \in held("app_validation"))
    /\ [][PassFires("app_validation") => Woken("integrate_dht_ops")]_vars

\* Integrate, which only an App-Validate pass can trigger here, has a signal
\* queued after a pass, and nothing else is queued or running
C15_Witness ==
    /\ tx["integrate_dht_ops"].q = 1
    /\ lastOutcome = "Complete"
    /\ stop = "none"
    /\ \A s \in Stages : stage[s] = "Idle"
    /\ \A s \in Stages \ {"integrate_dht_ops"} : tx[s].q = 0

\* C16 (spawn waits for the initial loops): once spawn_queue_consumer_tasks
\* has returned, every consumer is spawned and has been through its loop
\* once, so a pass of the consumer followed has completed.
C16_ReturnsAfterInitialLoop ==
    spawnPc = SpawnDone
       => /\ \A s \in Stages : stage[s] # "Unspawned"
          /\ lastOutcome # "none"

\* C17 (bootstrap liveness): before initialize_workflows() is called no
\* channel holds a signal and no stage has left Idle; a stage whose channel
\* is empty never leaves Idle; and once initialize_workflows() has been
\* called, each stage completes a pass, under fair scheduling and with the
\* shutdown broadcast never sent.
C17_BootstrapLiveness ==
    /\ [](calls = 0 =>
            /\ lastOutcome = "none"
            /\ \A s \in Stages : stage[s] \in {"Unspawned", "Idle"} /\ tx[s].q = 0)
    /\ [][\A s \in Stages :
            (stage[s] = "Idle" /\ tx[s].q = 0) => stage'[s] = "Idle"]_vars
    /\ \A s \in Stages :
          (focus = s /\ calls >= 1) ~> (stage[s] = "Idle" /\ lastOutcome # "none")

\* initialize_workflows() was called once and has returned, every trigger
\* was fired once, and publish, which nothing else triggers here, has
\* completed a pass
C17_Witness ==
    /\ focus = "publish_dht_ops"
    /\ calls = 1
    /\ returned = 1
    /\ \A s \in Stages : fired[s] = 1
    /\ lastOutcome # "none"
    /\ stage["publish_dht_ops"] = "Idle"
    /\ stop = "none"

(***************************************************************************)
(* Dependency lookups: claims C18-C20                                      *)
(***************************************************************************)
SingleFacts == {"header", "element", "entry"}

\* the tier holds the fact a single-fact lookup asks for: the header, the
\* element with its entry, or the entry through a header its metadata lists
present(fn, t) ==
    CASE fn = "header"  -> elem[t] # "Absent"
      [] fn = "element" -> elem[t] = "Full"
      [] OTHER          -> meta[t] /\ elem[t] # "Absent"

\* the tier holds nothing of the fact
absent(fn, t) ==
    CASE fn = "header"  -> elem[t] = "Absent"
      [] fn = "element" -> elem[t] = "Absent"
      [] OTHER          -> ~meta[t] \/ elem[t] = "Absent"

\* what a graded result of the lookup carries
payload(fn) == IF fn = "header" THEN "header" ELSE "element"

\* C18 (tier precedence): a header, element or entry lookup, at either
\* check level, on a fact the vault tier holds, or the vault tier does not
\* hold and the judged tier holds, returns Proof of the fact without a
\* network query, whatever the pending tier holds and the network would
\* answer (the stores it reads being readable); so a fact in both vault and
\* pending is never returned as PendingValidation.
C18_TierPrecedence ==
    \A fn \in SingleFacts :
       lookup.fn = fn =>
          /\ (present(fn, "vault") /\ lookup.bad # "vault")
                => (lookup.out = "Proof" /\ lookup.val = payload(fn) /\ lookup.netq = 0)
          /\ (absent(fn, "vault") /\ present(fn, "judged")
                /\ lookup.bad \notin {"vault", "judged"})
                => (lookup.out = "Proof" /\ lookup.val = payload(fn) /\ lookup.netq = 0)

\* a header held by the judged and the pending tier and not by the vault,
\* looked up at CheckLevel::Claim with a network that would return it
C18_Witness ==
    /\ lookup.fn = "header"
    /\ lookup.level = "Claim"
    /\ lookup.net = "Some"
    /\ elem["vault"] = "Absent"
    /\ elem["judged"] # "Absent"
    /\ elem["pending"] # "Absent"
    /\ lookup.out = "Proof"

\* C19 as claimed (scenario B): a header lookup at CheckLevel::Proof on a
\* header that only the pending tier holds fails with NotHoldingDep of the
\* header hash.
C19_PendingOnlyNotHolding ==
    (/\ lookup.fn = "header"
     /\ lookup.level = "Proof"
     /\ lookup.bad = "none"
     /\ elem["vault"] = "Absent"
     /\ elem["judged"] = "Absent"
     /\ elem["pending"] # "Absent")
       => (lookup.out = "NotHoldingDep" /\ lookup.val = "header_hash")

\* C19 as amended: a header lookup at CheckLevel::Proof on a header that
\* only the pending tier holds returns PendingValidation of the header; it
\* fails with NotHoldingDep of the header hash when, and only when, none of
\* the three tiers holds the header.
C19_PendingOnlyIsPendingValidation ==
    (lookup.fn = "header" /\ lookup.level = "Proof" /\ lookup.bad = "none")
       => /\ (elem["vault"] = "Absent" /\ elem["judged"] = "Absent"
                 /\ elem["pending"] # "Absent")
                => (lookup.out = "PendingValidation" /\ lookup.val = "header")
          /\ (lookup.out = "NotHoldingDep")
                <=> (\A t \in Tiers : elem[t] = "Absent")
          /\ (lookup.out = "NotHoldingDep") => lookup.val = "header_hash"

\* the pending tier alone holds the header and the lookup at
\* CheckLevel::Proof returned it as PendingValidation
C19_Witness ==
    /\ lookup.fn = "header"
    /\ lookup.level = "Proof"
    /\ lookup.bad = "none"
    /\ elem["vault"] = "Absent"
    /\ elem["judged"] = "Absent"
    /\ elem["pending"] = "Full"
    /\ lookup.out = "PendingValidation"
    /\ lookup.val = "header"

\* C20 (resolver step 3): a header, element or entry lookup, at either
\* check level, on a fact that the vault and judged tiers do not hold and
\* the pending tier holds returns PendingValidation of the fact, and makes
\* no network query.
C20_PendingStep ==
    \A fn \in SingleFacts :
       (/\ lookup.fn = fn
        /\ lookup.bad = "none"
        /\ absent(fn, "vault")
        /\ absent(fn, "judged")
        /\ present(fn, "pending"))
          => (/\ lookup.out = "PendingValidation"
              /\ lookup.val = payload(fn)
              /\ lookup.netq = 0)

\* an entry only the pending tier holds, looked up at CheckLevel::Claim with
\* a network that would return it: PendingValidation, and no query made
C20_Witness ==
    /\ lookup.fn = "entry"
    /\ lookup.level = "Claim"
    /\ lookup.net = "Some"
    /\ lookup.bad = "none"
    /\ absent("entry", "vault")
    /\ absent("entry", "judged")
    /\ present("entry", "pending")
    /\ lookup.out = "PendingValidation"
    /\ lookup.netq = 0

(***************************************************************************)
(* Dependency lookups: claims C21-C30                                      *)
(***************************************************************************)
Composites == {"prev_header", "store_entry", "link_add"}

\* the single fact a lookup asks the element stores for
fact(fn) ==
    CASE fn = "prev_header" -> "header"
      [] fn = "store_entry" -> "element"
      [] fn = "link_add"    -> "header"
      [] OTHER              -> fn

\* the hash a lookup was called with for that fact
requested(fn) == IF fn = "entry" THEN "entry_hash" ELSE "header_hash"

\* C21 (resolver step 4): a header, element, entry, prev-header,
\* store-entry or link-add lookup at CheckLevel::Proof on a fact none of the
\* three tiers holds fails with NotHoldingDep carrying the hash it was
\* called with, and makes no network query (the stores being readable).
C21_ProofMissIsNotHolding ==
    \A fn \in SingleFacts \cup Composites :
       (/\ lookup.fn = fn
        /\ lookup.level = "Proof"
        /\ lookup.bad = "none"
        /\ \A t \in Tiers : absent(fact(fn), t))
          => (/\ lookup.out = "NotHoldingDep"
              /\ lookup.val = requested(fn)
              /\ lookup.netq = 0)

\* a store-entry lookup at CheckLevel::Proof whose metadata reference is in
\* the vault while no tier holds the element failed with NotHoldingDep
C21_Witness ==
    /\ lookup.fn = "store_entry"
    /\ lookup.level = "Proof"
    /\ lookup.bad = "none"
    /\ meta["vault"]
    /\ \A t \in Tiers : elem[t] = "Absent"
    /\ lookup.out = "NotHoldingDep"
    /\ lookup.val = "header_hash"

\* every lookup that takes a check level
Lookups == SingleFacts \cup Composites

\* the three local tiers were read and none of them holds what the lookup
\* asks of its header, element or entry leg
missedLocally(fn) == \A t \in Tiers : ~present(fact(fn), t)

\* C22 (scenario C): a header lookup at CheckLevel::Claim on a header that
\* none of the three local tiers holds, with a network that returns the
\* header, returns Claim of the header after one network query.
C22_NetworkHitIsClaim ==
    (/\ lookup.fn = "header"
     /\ lookup.level = "Claim"
     /\ lookup.bad = "none"
     /\ lookup.net = "Some"
     /\ \A t \in Tiers : elem[t] = "Absent")
       => (/\ lookup.out = "Claim"
           /\ lookup.val = "header"
           /\ lookup.netq = 1)

\* the header is nowhere local, the network returned it, the lookup
\* answered Claim of the header
C22_Witness ==
    /\ lookup.fn = "header"
    /\ lookup.level = "Claim"
    /\ lookup.bad = "none"
    /\ lookup.net = "Some"
    /\ \A t \in Tiers : elem[t] = "Absent"
    /\ lookup.out = "Claim"
    /\ lookup.val = "header"

\* C23 (scenario D): a lookup at CheckLevel::Claim, single-fact or
\* composite, on a fact none of the three local tiers holds, with a network
\* that returns nothing, fails with DepMissingFromDht of the requested hash.
C23_NetworkMissIsDepMissing ==
    \A fn \in Lookups :
       (/\ lookup.fn = fn
        /\ lookup.level = "Claim"
        /\ lookup.bad = "none"
        /\ lookup.net = "None"
        /\ missedLocally(fn))
          => (/\ lookup.out = "DepMissingFromDht"
              /\ lookup.val = requested(fn)
              /\ lookup.netq = 1)

\* an entry no tier lists, asked at CheckLevel::Claim of a network that has
\* nothing: DepMissingFromDht of the entry hash
C23_Witness ==
    /\ lookup.fn = "entry"
    /\ lookup.level = "Claim"
    /\ lookup.bad = "none"
    /\ lookup.net = "None"
    /\ \A t \in Tiers : ~meta[t]
    /\ lookup.out = "DepMissingFromDht"
    /\ lookup.val = "entry_hash"

\* C24 as claimed: a lookup at CheckLevel::Claim on a fact none of the three
\* local tiers holds, whose network fetch fails with an error, fails with
\* DepMissingFromDht of the requested hash.
C24_NetworkErrorIsDepMissing ==
    \A fn \in Lookups :
       (/\ lookup.fn = fn
        /\ lookup.level = "Claim"
        /\ lookup.bad = "none"
        /\ lookup.net = "Err"
        /\ missedLocally(fn))
          => (lookup.out = "DepMissingFromDht" /\ lookup.val = requested(fn))

\* C24 as amended: a lookup at CheckLevel::Claim on a fact none of the three
\* local tiers holds, whose network fetch fails with an error, fails with
\* that error (`.await?` returns it to the caller) after the one query, and
\* does not report DepMissingFromDht; DepMissingFromDht is the outcome of a
\* fetch that succeeded and returned nothing.
C24_NetworkErrorPropagates ==
    \A fn \in Lookups :
       /\ (/\ lookup.fn = fn
           /\ lookup.level = "Claim"
           /\ lookup.bad = "none"
           /\ lookup.net = "Err"
           /\ missedLocally(fn))
             => (/\ lookup.out = "Error"
                 /\ lookup.val = "CascadeError"
                 /\ lookup.netq = 1)
       /\ (lookup.fn = fn /\ lookup.out = "DepMissingFromDht")
             => lookup.net = "None"

\* an element nowhere local, a network fetch that failed: the lookup failed
\* with the error of the fetch
C24_Witness ==
    /\ lookup.fn = "element"
    /\ lookup.level = "Claim"
    /\ lookup.bad = "none"
    /\ lookup.net = "Err"
    /\ \A t \in Tiers : elem[t] = "Absent"
    /\ lookup.out = "Error"
    /\ lookup.val = "CascadeError"
    /\ lookup.netq = 1

\* C25: a lookup queries the network at most once, and exactly when it was
\* made at CheckLevel::Claim and the vault, judged and pending tiers were
\* all read and all missed; it makes no query at CheckLevel::Proof, none
\* after a local hit, none after a failed local read, and a network that
\* returned nothing is not asked again.
C25_NetworkAtMostOnce ==
    \A fn \in Lookups :
       lookup.fn = fn
          => /\ lookup.netq \in {0, 1}
             /\ lookup.netq = 1
                   <=> (/\ lookup.level = "Claim"
                        /\ lookup.bad = "none"
                        /\ missedLocally(fn))
             /\ lookup.level = "Proof" => lookup.netq = 0
             /\ (\E t \in Tiers : present(fact(fn), t) /\ lookup.bad = "none")
                   => lookup.netq = 0

\* a store-entry lookup at CheckLevel::Claim whose element only the pending
\* tier holds, with a network that would have returned it: the local hit
\* answered and the network was not asked
C25_Witness ==
    /\ lookup.fn = "store_entry"
    /\ lookup.level = "Claim"
    /\ lookup.bad = "none"
    /\ lookup.net = "Some"
    /\ elem["vault"] = "Absent"
    /\ elem["judged"] = "Absent"
    /\ elem["pending"] = "Full"
    /\ lookup.out = "PendingValidation"
    /\ lookup.netq = 0

\* the weaker of two tags under Proof > Claim > PendingValidation
weaker(s, t) ==
    CASE s = "PendingValidation" \/ t = "PendingValidation" -> "PendingValidation"
      [] s = "Claim" \/ t = "Claim"                         -> "Claim"
      [] OTHER                                              -> "Proof"

\* C26 (confidence downgrade): the min of two dependencies a and b carries
\* a's payload under the weaker of the two tags in the order Proof > Claim >
\* PendingValidation: min(Proof, Claim) is Claim, min(Proof,
\* PendingValidation) and min(Claim, PendingValidation) are
\* PendingValidation, min(Proof, Proof) is Proof, and the tag is the same
\* with the operands exchanged.
C26_MinIsWeakerTag ==
    lookup.fn = "min"
       => /\ lookup.val = lookup.a.val
          /\ lookup.out = weaker(lookup.a.out, lookup.b.out)
          /\ lookup.out = min(lookup.b, lookup.a).out
          /\ (lookup.a.out = "Proof" /\ lookup.b.out = "Claim")
                => lookup.out = "Claim"
          /\ (lookup.a.out = "Proof" /\ lookup.b.out = "PendingValidation")
                => lookup.out = "PendingValidation"
          /\ (lookup.a.out = "Claim" /\ lookup.b.out = "PendingValidation")
                => lookup.out = "PendingValidation"
          /\ (lookup.a.out = "Proof" /\ lookup.b.out = "Proof")
                => lookup.out = "Proof"

\* a Proof of a header combined with a PendingValidation of a metadata
\* reference: PendingValidation of the header
C26_Witness ==
    /\ lookup.fn = "min"
    /\ lookup.a = [out |-> "Proof", val |-> "header"]
    /\ lookup.b = [out |-> "PendingValidation", val |-> "unit"]
    /\ lookup.out = "PendingValidation"
    /\ lookup.val = "header"

\* C27 (scenario E): a link-add lookup at CheckLevel::Proof on a CreateLink
\* header that the vault or the judged tier holds, whose link reference is
\* in the pending metadata tier and in neither the vault nor the judged
\* metadata tier, returns PendingValidation of the header.
C27_LinkAddPendingMeta ==
    (/\ lookup.fn = "link_add"
     /\ lookup.level = "Proof"
     /\ lookup.bad = "none"
     /\ hkind = "CreateLink"
     /\ (elem["vault"] # "Absent" \/ elem["judged"] # "Absent")
     /\ ~meta["vault"]
     /\ ~meta["judged"]
     /\ meta["pending"])
       => (/\ lookup.out = "PendingValidation"
           /\ lookup.val = "header"
           /\ lookup.netq = 0)

\* the judged tier holds the CreateLink header, the pending metadata tier
\* alone holds the link: the composite is PendingValidation of the header
C27_Witness ==
    /\ lookup.fn = "link_add"
    /\ lookup.level = "Proof"
    /\ lookup.bad = "none"
    /\ hkind = "CreateLink"
    /\ elem["vault"] = "Absent"
    /\ elem["judged"] # "Absent"
    /\ ~meta["vault"]
    /\ ~meta["judged"]
    /\ meta["pending"]
    /\ lookup.out = "PendingValidation"
    /\ lookup.val = "header"

\* the metadata cross-reference leg of a composite lookup, resolved on the
\* stores as they are
metaLeg(fn, bad) ==
    CASE fn = "prev_header" -> check_prev_header_in_metadata_all(workspace, bad)
      [] fn = "store_entry" -> check_header_in_metadata_all(workspace, bad)
      [] OTHER              -> check_link_in_metadata_all(workspace, bad)

\* the header or element leg of a composite lookup, resolved on the stores
\* as they are
factLeg(fn, bad) ==
    IF fn = "store_entry" THEN check_holding_element_inner(workspace, bad)
    ELSE check_holding_header_inner(workspace, bad)

\* C28 (weakest link): a prev-header, store-entry or link-add lookup, at
\* CheckLevel::Proof or CheckLevel::Claim, returns Proof only if its header
\* or element leg and its metadata cross-reference leg both resolve as
\* Proof; with a metadata leg that is PendingValidation, Claim or missing
\* the composite is not Proof.
C28_WeakestLink ==
    \A fn \in Composites :
       (lookup.fn = fn /\ lookup.out = "Proof")
          => (/\ factLeg(fn, lookup.bad).out = "Proof"
              /\ metaLeg(fn, lookup.bad).out = "Proof")

\* the metadata cross-reference lookups: author chain-activity, entry to
\* headers, link base to targets
MetaLookups == {"prev_header_meta", "header_meta", "link_meta"}

\* the link lookup was handed a header that is not a CreateLink
notALink(fn) == fn = "link_meta" /\ hkind # "CreateLink"

\* the lookup finds its key in no metadata tier
noMatch(fn) == notALink(fn) \/ \A t \in Tiers : ~meta[t]

\* C29 as claimed: a metadata cross-reference lookup that finds no match in
\* any metadata tier fails with NotHoldingDep and with no other error, a
\* link lookup whose header is not a CreateLink included.
C29_MetaMissIsNotHolding ==
    \A fn \in MetaLookups :
       (lookup.fn = fn /\ lookup.bad = "none" /\ noMatch(fn))
          => lookup.out = "NotHoldingDep"

\* C29 as amended: a metadata cross-reference lookup whose key is in no
\* metadata tier fails with NotHoldingDep of the header hash and with no
\* other error, except the link lookup whose header is not a CreateLink:
\* that one fails with NotCreateLink, whatever the metadata tiers hold.
C29_MetaMissOrNotCreateLink ==
    \A fn \in MetaLookups :
       (lookup.fn = fn /\ lookup.bad = "none")
          => /\ notALink(fn)
                   => (lookup.out = "Error" /\ lookup.val = "NotCreateLink")
             /\ (~notALink(fn) /\ \A t \in Tiers : ~meta[t])
                   => (lookup.out = "NotHoldingDep" /\ lookup.val = "header_hash")
             /\ lookup.out = "NotHoldingDep"
                   => (~notALink(fn) /\ \A t \in Tiers : ~meta[t])

\* a link lookup on a header that is no CreateLink, with no link in any
\* metadata tier: it failed with NotCreateLink
C29_Witness ==
    /\ lookup.fn = "link_meta"
    /\ lookup.bad = "none"
    /\ hkind = "Create"
    /\ \A t \in Tiers : ~meta[t]
    /\ lookup.out = "Error"
    /\ lookup.val = "NotCreateLink"

\* C30: a lookup made at CheckLevel::Proof, single-fact or composite,
\* returns neither DepMissingFromDht nor a Claim; both come from lookups
\* made at CheckLevel::Claim that queried the network.
C30_ClaimLevelOnly ==
    \A fn \in Lookups :
       lookup.fn = fn
          => /\ lookup.level = "Proof"
                   => lookup.out \notin {"DepMissingFromDht", "Claim"}
             /\ lookup.out \in {"DepMissingFromDht", "Claim"}
                   => (lookup.level = "Claim" /\ lookup.netq = 1)

\* a prev-header lookup at CheckLevel::Proof on a header no tier holds, its
\* chain-activity reference in the vault metadata, with a network that
\* would have returned the header: NotHoldingDep, not a Claim
C30_Witness ==
    /\ lookup.fn = "prev_header"
    /\ lookup.level = "Proof"
    /\ lookup.bad = "none"
    /\ lookup.net = "Some"
    /\ meta["vault"]
    /\ \A t \in Tiers : elem[t] = "Absent"
    /\ lookup.out = "NotHoldingDep"
    /\ lookup.netq = 0

(***************************************************************************)
(* Frame, shutdown and error handling: claims C31-C40                      *)
(***************************************************************************)

\* C31 (read-only resolver): a lookup, single-fact, composite or of a
\* metadata cross-reference, at either check level, returning a graded fact
\* or failing, with or without a network fetch, leaves the element and the
\* metadata stores of the vault, judged and pending tiers as they were.
C31_ResolverReadOnly ==
    [][(lookup.fn = "none" /\ lookup'.fn \in Lookups \cup MetaLookups)
          => (elem' = elem /\ meta' = meta)]_vars

\* an element lookup at CheckLevel::Claim got the element from the network
\* and no tier holds it afterwards
C31_Witness ==
    /\ lookup.fn = "element"
    /\ lookup.level = "Claim"
    /\ lookup.out = "Claim"
    /\ lookup.netq = 1
    /\ \A t \in Tiers : elem[t] = "Absent" /\ ~meta[t]

\* C32 (causal ordering): a stage triggers the stage downstream of it after
\* the write transaction of the pass has committed, never for writes that
\* are not in the store; so a pass started by a wakeup reads a store that
\* holds every write committed before the trigger() that woke it.
C32_TriggerAfterCommit ==
    /\ sentFor <= ver
    /\ ppc = "flushed" => pfor <= ver
    /\ dpc = "reading" => (wokeFor <= readVer /\ readVer <= ver)

\* the producer committed a second transaction and triggered, and the pass
\* that trigger woke reads the store with both transactions in it
C32_Witness ==
    /\ dpc = "reading"
    /\ wokeFor = 2
    /\ readVer = 2
    /\ ppc = "idle"

\* the i-th pair in zome-major order, zomes outside and components inside
pairAt(i, nc) == <<((i - 1) \div nc) + 1, ((i - 1) % nc) + 1>>

\* C34 (CallIterator): maybe_call is invoked on the pairs (zome, component)
\* in zome-major order, each pair once; the pairs answered Some are yielded
\* in that order, a pair answered None is passed over and the iteration
\* goes on; the components are fetched again once for each zome that was
\* finished; next() returns None only when every zome is finished, and when
\* every maybe_call answered Some exactly Z*C items were yielded by then.
C34_ZomeMajor ==
    /\ \A i \in 1..Len(it.calls) : it.calls[i] = pairAt(i, it.nc)
    /\ it.out = SelectSeq(it.calls, LAMBDA p : p \notin it.none /\ p # it.err)
    /\ it.fetches = 1 + (it.nz - Len(it.remaining_zomes))
    /\ it.last = "None"
          => (/\ it.remaining_zomes = <<>>
              /\ Len(it.calls) = it.nz * it.nc
              /\ it.fetches = 1 + it.nz
              /\ (it.none = {} /\ it.err = <<0, 0>>)
                    => Len(it.out) = it.nz * it.nc)

\* two zomes and two components: one pair was passed over, the three others
\* were yielded, and the iterator has ended
C34_Witness ==
    /\ it.nz = 2
    /\ it.nc = 2
    /\ it.none = {<<1, 2>>}
    /\ it.err = <<0, 0>>
    /\ it.last = "None"
    /\ it.out = << <<1, 1>>, <<2, 1>>, <<2, 2>> >>
    /\ it.fetches = 3

\* C35: next_job_or_exit returns Job::Run only when listen() returned Ok; it
\* returns Job::Shutdown when listen() returned the error of a closed
\* channel, and when the shutdown receiver it polled resolved, whether to a
\* broadcast value, to a lagged error or to the error of a dropped sender.
C35_RunOnlyOnOk ==
    /\ job.ret = "Run" => job.listen = "Ok"
    /\ job.listen = "Closed" => job.ret = "Shutdown"
    /\ job.kill \in {"Ok", "Lagged", "Closed"} => job.ret = "Shutdown"
    /\ job.ret = "Shutdown"
          => (job.listen = "Closed" \/ job.kill \in {"Ok", "Lagged", "Closed"})

\* no trigger was waiting and the broadcast receiver had lagged: Shutdown
C35_Witness ==
    /\ job.listen = "Pending"
    /\ job.kill = "Lagged"
    /\ job.ret = "Shutdown"
    /\ chan.senders > 0

\* C36: a lookup made at CheckLevel::Claim, single-fact or composite, does
\* not fail with NotHoldingDep: when the three local tiers all miss, the
\* network is asked, and the lookup ends with Proof, PendingValidation,
\* Claim, DepMissingFromDht, or the error of a failed store read or of a
\* failed fetch.
C36_ClaimNeverNotHolding ==
    \A fn \in Lookups :
       (lookup.fn = fn /\ lookup.level = "Claim")
          => /\ lookup.out \in {"Proof", "PendingValidation", "Claim",
                                "DepMissingFromDht", "Error"}
             /\ lookup.out = "Error"
                   => lookup.val \in {"DatabaseError", "CascadeError"}
             /\ (lookup.bad = "none" /\ missedLocally(fn)) => lookup.netq = 1

\* a store-entry lookup at CheckLevel::Claim on an element every tier holds
\* without its entry: the three tiers missed and the network's element came
\* back as a Claim
C36_Witness ==
    /\ lookup.fn = "store_entry"
    /\ lookup.level = "Claim"
    /\ lookup.bad = "none"
    /\ \A t \in Tiers : elem[t] = "NoEntry"
    /\ lookup.out = "Claim"
    /\ lookup.val = "element"
    /\ lookup.netq = 1

\* a tier whose store is read before the tier t
before(t) ==
    CASE t = "vault"   -> {}
      [] t = "judged"  -> {"vault"}
      [] OTHER         -> {"vault", "judged"}

\* C37 (short circuit): in a single-fact lookup, at either check level, a
\* tier whose read fails with an error other than NotHoldingDep ends the
\* search when it is reached, that is when the tiers before it missed: the
\* error is what the lookup returns and the network is not asked; a tier
\* that answers NotHoldingDep lets the search go on.  A metadata lookup of
\* a link on a header that is no CreateLink ends on the first tier with
\* NotCreateLink, whatever the later tiers hold.
C37_ErrorShortCircuits ==
    /\ \A fn \in SingleFacts : \A t \in Tiers :
          (/\ lookup.fn = fn
           /\ lookup.bad = t
           /\ \A u \in before(t) : ~present(fn, u))
             => (/\ lookup.out = "Error"
                 /\ lookup.val = "DatabaseError"
                 /\ lookup.netq = 0)
    /\ \A fn \in MetaLookups : \A t \in Tiers :
          (/\ lookup.fn = fn
           /\ lookup.bad = t
           /\ ~notALink(fn)
           /\ \A u \in before(t) : ~meta[u])
             => (lookup.out = "Error" /\ lookup.val = "DatabaseError")
    /\ (lookup.fn = "link_meta" /\ hkind # "CreateLink")
          => (lookup.out = "Error" /\ lookup.val = "NotCreateLink")
    /\ \A fn \in SingleFacts : \A t \in Tiers :
          (/\ lookup.fn = fn
           /\ lookup.bad = "none"
           /\ \A u \in before(t) : ~present(fn, u)
           /\ present(fn, t))
             => lookup.out = IF t = "pending" THEN "PendingValidation" ELSE "Proof"

\* an element lookup at CheckLevel::Claim: the vault misses, the read of the
\* judged store fails, the pending tier holds the element and the network
\* would return it; the lookup returned the read error
C37_Witness ==
    /\ lookup.fn = "element"
    /\ lookup.level = "Claim"
    /\ lookup.bad = "judged"
    /\ lookup.net = "Some"
    /\ elem["vault"] = "Absent"
    /\ elem["pending"] = "Full"
    /\ lookup.out = "Error"
    /\ lookup.val = "DatabaseError"
    /\ lookup.netq = 0

\* C38 (element without entry): a tier that holds the element without its
\* entry data counts as not holding it, and the element lookup goes on to
\* the next tier: with the element held without entry in the vault tier,
\* not fully held in the judged tier and held with its entry in the pending
\* tier, the lookup returns PendingValidation of the element, not Proof.
C38_NoEntryIsNotHeld ==
    (/\ lookup.fn = "element"
     /\ lookup.bad = "none"
     /\ elem["vault"] = "NoEntry"
     /\ elem["judged"] # "Full"
     /\ elem["pending"] = "Full")
       => (/\ lookup.out = "PendingValidation"
           /\ lookup.val = "element"
           /\ lookup.netq = 0)

\* the vault holds the element without its entry, the pending tier holds it
\* whole: PendingValidation at CheckLevel::Proof
C38_Witness ==
    /\ lookup.fn = "element"
    /\ lookup.level = "Proof"
    /\ lookup.bad = "none"
    /\ elem["vault"] = "NoEntry"
    /\ elem["judged"] = "Absent"
    /\ elem["pending"] = "Full"
    /\ lookup.out = "PendingValidation"
    /\ lookup.val = "element"

\* C39 (feedback edge): the sender of Sys-Validate's channel reaches the
\* Integrate consumer through the oneshot channel, after Sys-Validate was
\* spawned, once, and before spawn_queue_consumer_tasks returns; from then
\* on the senders held make the cycle Sys-Validate -> App-Validate ->
\* Integrate -> Sys-Validate; and an Integrate pass that fires its trigger
\* does so with the sender delivered, on Sys-Validate's channel.
C39_FeedbackEdge ==
    /\ [](slot = "sent" => stage["sys_validation"] # "Unspawned")
    /\ [](spawnPc = SpawnDone
            => /\ slot = "sent"
               /\ held("sys_validation") = {"app_validation"}
               /\ held("app_validation") = {"integrate_dht_ops"}
               /\ held("integrate_dht_ops") = {"sys_validation"})
    /\ [](spawnPc < SpawnDone => lastOutcome = "none")
    /\ [][slot = "sent" => slot' = "sent"]_vars
    /\ [][slot' # slot
             => (\/ (slot = "none" /\ slot' = "empty")
                 \/ (slot = "empty" /\ slot' = "sent"
                        /\ tx'["sys_validation"].senders
                              = tx["sys_validation"].senders + 1))]_vars
    /\ [][PassFires("integrate_dht_ops")
             => (slot = "sent" /\ Woken("sys_validation"))]_vars

\* after the bootstrap has fired Sys-Validate's trigger once, a pass of the
\* Integrate consumer has put a second signal on Sys-Validate's channel
C39_Witness ==
    /\ focus = "integrate_dht_ops"
    /\ slot = "sent"
    /\ spawnPc = SpawnDone
    /\ fired["sys_validation"] = 1
    /\ tx["sys_validation"].q = 2
    /\ lastOutcome # "none"
    /\ stage["integrate_dht_ops"] = "Idle"

\* C40 (Stopped is terminal): a stage that has stopped stays stopped and
\* runs no further pass; its channel has no receiver and holds nothing, a
\* trigger() on it finds it closed and leaves it as it is, whoever calls
\* it; and a pass of an upstream stage that ends while the stage downstream
\* of it is stopped ends as any other pass, with its stage back to Idle.
C40_StoppedIsTerminal ==
    /\ [](\A s \in Stages : stage[s] = "Stopped"
             => /\ ~tx[s].rxAlive
                /\ tx[s].q = 0
                /\ try_send(tx[s]).res = "Closed"
                /\ trigger(tx[s]) = tx[s])
    /\ [][\A s \in Stages : stage[s] = "Stopped"
             => /\ stage'[s] = "Stopped"
                /\ tx'[s].q = 0
                /\ ~tx'[s].rxAlive]_vars
    /\ [][\A u \in Stages : \A s \in Downstream(u) :
             (stage[s] = "Stopped" /\ stage[u] = "Running" /\ stage'[u] # "Running")
                => (stage'[u] = "Idle" /\ tx'[s].q = 0)]_vars

\* App-Validate has stopped on the shutdown broadcast while Sys-Validate,
\* which holds its sender, has ended a pass since and is idle with a signal
\* of its own; nothing is queued for App-Validate
C40_Witness ==
    /\ stop = "sent"
    /\ stage["app_validation"] = "Stopped"
    /\ tx["app_validation"].q = 0
    /\ stage["sys_validation"] = "Idle"
    /\ tx["sys_validation"].q > 0
    /\ lastOutcome = "Incomplete"
    /\ \A s \in Stages \ {"app_validation", "sys_validation"} : stage[s] = "Stopped"

=============================================================================
